---- MODULE Spec2Model ----
(***************************************************************************)
(* DMARCer: the report parser (src/src/xml_parser.rs) as a state machine.  *)
(*                                                                         *)
(* An XML text is a sequence of atoms.  An atom is either one character of *)
(* character data ("1", ".", " ", "s", ...) or one piece of markup that    *)
(* the code only ever looks at as a whole: a start tag "<record>", an end  *)
(* tag "</record>", an empty-element tag "<row/>", the markers             *)
(* "<!DOCTYPE" and "<!ENTITY" the pre-pass searches for, the terminator    *)
(* "]>" it searches for, the terminator "] >" it does not find, and the    *)
(* entity reference "&xxe;".  A String of the program (a field of a        *)
(* record) is a sequence of atoms as well.                                 *)
(*                                                                         *)
(* The archive guard (src/src/zip_handler.rs) and the file handler         *)
(* (src/src/file_handlers.rs) are state machines over a file: its name,    *)
(* its raw bytes, and what the zip and gzip readers find in it.  Bytes are *)
(* atoms too: "a", " " and one byte that is not valid UTF-8.               *)
(***************************************************************************)
EXTENDS Integers, Sequences, FiniteSets, TLC

VARIABLES
    xml_content,     \* the argument of parse_dmarc_xml
    pc,              \* "prepass" | "loop" | "done"
    reader,          \* quick_xml Reader over cleaned_xml: unread text, open tags
    records,         \* Vec<DmarcRecord>
    policy,          \* DmarcPolicy
    current_record,  \* Option<DmarcRecord>: << >> is None, <<r>> is Some(r)
    depth,           \* u32
    event,           \* what the last reader.read_event() of the main loop returned
    result,          \* << >> while running, then <<Ok(..)>> or <<Err(..)>>
    file,            \* the file at file_path
    config,          \* &Config: the limits
    extraction,      \* a call of extract_zip: position, locals, result
    handling,        \* a call of FileHandler::process_file: position, result
    calls,           \* how many calls have returned and been followed by another
    main,            \* a run of main: position, locals, what was printed and sent
    settings,        \* a call of Config::new: the environment, the result
    webhook,         \* a call of WebhookHandler::send: attempts, result
    geo,             \* GEO_CACHE and the calls of GeoLookup in flight
    worker           \* the queue worker: its position, the queue, the stores

vars == <<xml_content, pc, reader, records, policy, current_record, depth,
          event, result, file, config, extraction, handling, calls, main,
          settings, webhook, geo, worker>>

\* What the parser, the extractors and main do not touch.
services == <<settings, webhook, geo, worker>>

----------------------------------------------------------------------------
(* Atoms *)

ElementNames ==
    {"feedback", "record", "source_ip", "count", "header_from", "dkim", "spf",
     "policy_published", "domain", "selector", "result", "scope", "adkim",
     "aspf", "p", "pct", "a", "row", "auth_results", "policy_evaluated",
     "envelope_from", "date_range", "begin", "end", "disposition"}

STag(n) == "<" \o n \o ">"
ETag(n) == "</" \o n \o ">"
EmptyTag(n) == "<" \o n \o "/>"

StartTags == {STag(n) : n \in ElementNames}
EndTags == {ETag(n) : n \in ElementNames}
EmptyTags == {EmptyTag(n) : n \in ElementNames}

TagName(a) == CHOOSE n \in ElementNames : a \in {STag(n), ETag(n), EmptyTag(n)}

XmlDecl == "<?xml?>"
DoctypeMarker == "<!DOCTYPE"
EntityMarker == "<!ENTITY"
BlockEnd == "]>"
SpacedEnd == "] >"
EntityRef == "&xxe;"

\* Atoms that hold a '<' and no '>' / a '>' and no '<'.
OpensAngle(a) == a \in {DoctypeMarker, EntityMarker}
ClosesAngle(a) == a \in {">", BlockEnd, SpacedEnd}
\* Atoms at which the tokenizer starts reading markup.
IsMarkup(a) == a \in StartTags \cup EndTags \cup EmptyTags
                     \cup {XmlDecl, DoctypeMarker, EntityMarker}

Whitespace == {" "}

----------------------------------------------------------------------------
(* str methods used by the parser, on sequences of atoms *)

\* s[i..]
From(s, i) == SubSeq(s, i, Len(s))

\* str::find of a one-atom pattern: 0 is None, otherwise the 1-based index.
Find(s, pat) ==
    IF \E i \in 1..Len(s) : s[i] = pat
    THEN CHOOSE i \in 1..Len(s) : s[i] = pat /\ \A j \in 1..(i - 1) : s[j] # pat
    ELSE 0

\* str::matches(pat).count()
MatchCount(s, pat) == Cardinality({i \in 1..Len(s) : s[i] = pat})

\* str::trim
Trim(s) ==
    LET keep == {i \in 1..Len(s) : s[i] \notin Whitespace} IN
    IF keep = {} THEN << >>
    ELSE SubSeq(s, CHOOSE i \in keep : \A j \in keep : i <= j,
                   CHOOSE i \in keep : \A j \in keep : j <= i)

UpperLetters ==
    <<"A", "B", "C", "D", "E", "F", "G", "H", "I", "J", "K", "L", "M",
      "N", "O", "P", "Q", "R", "S", "T", "U", "V", "W", "X", "Y", "Z">>
LowerLetters ==
    <<"a", "b", "c", "d", "e", "f", "g", "h", "i", "j", "k", "l", "m",
      "n", "o", "p", "q", "r", "s", "t", "u", "v", "w", "x", "y", "z">>

LowerOf(c) ==
    IF \E i \in 1..Len(UpperLetters) : UpperLetters[i] = c
    THEN LowerLetters[CHOOSE i \in 1..Len(UpperLetters) : UpperLetters[i] = c]
    ELSE c

\* str::to_lowercase
ToLower(s) == [i \in 1..Len(s) |-> LowerOf(s[i])]

\* str::starts_with of a one-character pattern
StartsWith(s, c) == Len(s) >= 1 /\ s[1] = c

Digits == {"0", "1", "2", "3", "4", "5", "6", "7", "8", "9"}

DigitValue(c) ==
    CASE c = "0" -> 0 [] c = "1" -> 1 [] c = "2" -> 2 [] c = "3" -> 3
      [] c = "4" -> 4 [] c = "5" -> 5 [] c = "6" -> 6 [] c = "7" -> 7
      [] c = "8" -> 8 [] c = "9" -> 9

\* The value of a digit string, saturating just above `max` (checked
\* multiplication and addition of the integer parser).
RECURSIVE DigitsValue(_, _, _)
DigitsValue(s, acc, max) ==
    IF s = << >> THEN acc
    ELSE IF acc > max THEN acc
    ELSE DigitsValue(Tail(s), acc * 10 + DigitValue(Head(s)), max)

\* str::parse::<uN>(): << >> is Err, <<v>> is Ok(v).  An optional leading
\* "+", then one or more decimal digits, value at most `max`.
ParseUnsigned(s, max) ==
    LET body == IF StartsWith(s, "+") THEN Tail(s) ELSE s IN
    IF body = << >> \/ \E i \in 1..Len(body) : body[i] \notin Digits
    THEN << >>
    ELSE LET v == DigitsValue(body, 0, max) IN
         IF v > max THEN << >> ELSE <<v>>

U8Max == 255

\* The decimal digits of u32::MAX, 4294967295.
U32MaxDigits == <<"4", "2", "9", "4", "9", "6", "7", "2", "9", "5">>

RECURSIVE StripZeros(_)
StripZeros(s) ==
    IF Len(s) > 1 /\ Head(s) = "0" THEN StripZeros(Tail(s)) ELSE s

\* a <= b for digit strings of equal length
RECURSIVE DigitsLeq(_, _)
DigitsLeq(a, b) ==
    IF a = << >> THEN TRUE
    ELSE IF DigitValue(Head(a)) < DigitValue(Head(b)) THEN TRUE
    ELSE IF DigitValue(Head(a)) > DigitValue(Head(b)) THEN FALSE
    ELSE DigitsLeq(Tail(a), Tail(b))

RECURSIVE DigitsExact(_, _)
DigitsExact(s, acc) ==
    IF s = << >> THEN acc
    ELSE DigitsExact(Tail(s), acc * 10 + DigitValue(Head(s)))

\* The decimal digits of 2^31 - 1, the largest number the model's
\* integers hold.
WordMaxDigits == <<"2", "1", "4", "7", "4", "8", "3", "6", "4", "7">>

\* The u32 a canonical digit string stands for; a value above 2^31 - 1 is
\* kept as its decimal digits.
U32Of(d) ==
    IF Len(d) = Len(WordMaxDigits) /\ ~DigitsLeq(d, WordMaxDigits)
    THEN d ELSE DigitsExact(d, 0)

\* str::parse::<u32>(): << >> is Err, <<v>> is Ok(v).
ParseU32(s) ==
    LET body == IF StartsWith(s, "+") THEN Tail(s) ELSE s IN
    IF body = << >> \/ \E i \in 1..Len(body) : body[i] \notin Digits
    THEN << >>
    ELSE LET d == StripZeros(body) IN
         IF Len(d) > Len(U32MaxDigits)
            \/ (Len(d) = Len(U32MaxDigits) /\ ~DigitsLeq(d, U32MaxDigits))
         THEN << >>
         ELSE <<U32Of(d)>>

\* str::parse::<u8>()
ParseU8(s) == ParseUnsigned(s, U8Max)

----------------------------------------------------------------------------
(* quick_xml: Reader::read_event, Reader::read_text *)

Err(kind, msg) == [kind |-> kind, msg |-> msg]

Ev(type, name) == [type |-> type, name |-> name, err |-> Err("", "")]
ErrEv(e) == [type |-> "Err", name |-> "", err |-> e]

\* trim_text(true): whitespace before the next token is skipped.
RECURSIVE SkipWs(_)
SkipWs(s) ==
    IF s # << >> /\ Head(s) \in Whitespace THEN SkipWs(Tail(s)) ELSE s

\* The number of atoms of `s` (the text after "<!DOCTYPE") up to and
\* including the '>' that closes the declaration: the first '>' before
\* which as many '<' as '>' were read.  0 when the text ends first.
RECURSIVE DoctypeLen(_, _, _)
DoctypeLen(s, i, balance) ==
    IF i > Len(s) THEN 0
    ELSE IF ClosesAngle(s[i])
         THEN IF balance = 0 THEN i ELSE DoctypeLen(s, i + 1, balance - 1)
         ELSE IF OpensAngle(s[i]) THEN DoctypeLen(s, i + 1, balance + 1)
         ELSE DoctypeLen(s, i + 1, balance)

\* The number of atoms of the character data at the head of `s`.
RECURSIVE TextLen(_, _)
TextLen(s, i) ==
    IF i > Len(s) \/ IsMarkup(s[i]) THEN i - 1 ELSE TextLen(s, i + 1)

\* The token at the head of `b`, the text left after white space was
\* skipped.  check_end_names is on (the default): an end tag must close
\* the innermost open element.
ReadToken(rd, b, h) ==
    CASE h \in StartTags ->
           [ev |-> Ev("Start", TagName(h)),
            rd |-> [rd EXCEPT !.buf = Tail(b),
                              !.opened = Append(@, TagName(h))]]
      [] h \in EndTags ->
           IF rd.opened # << >> /\ rd.opened[Len(rd.opened)] = TagName(h)
           THEN [ev |-> Ev("End", TagName(h)),
                 rd |-> [rd EXCEPT !.buf = Tail(b),
                                   !.opened = SubSeq(@, 1, Len(@) - 1)]]
           ELSE [ev |-> ErrEv(Err("Xml", "EndEventMismatch")),
                 rd |-> [rd EXCEPT !.buf = Tail(b)]]
      [] h \in EmptyTags ->
           [ev |-> Ev("Empty", TagName(h)), rd |-> [rd EXCEPT !.buf = Tail(b)]]
      [] h = XmlDecl ->
           [ev |-> Ev("Decl", ""), rd |-> [rd EXCEPT !.buf = Tail(b)]]
      [] h = DoctypeMarker ->
           IF DoctypeLen(Tail(b), 1, 0) = 0
           THEN [ev |-> ErrEv(Err("Xml", "UnexpectedEof(DOCTYPE)")),
                 rd |-> [rd EXCEPT !.buf = << >>]]
           ELSE [ev |-> Ev("DocType", ""),
                 rd |-> [rd EXCEPT
                           !.buf = From(Tail(b), DoctypeLen(Tail(b), 1, 0) + 1)]]
      [] h = EntityMarker ->
           [ev |-> ErrEv(Err("Xml", "UnexpectedBang")),
            rd |-> [rd EXCEPT !.buf = Tail(b)]]
      [] OTHER ->
           [ev |-> Ev("Text", ""),
            rd |-> [rd EXCEPT !.buf = From(b, TextLen(b, 1) + 1)]]

ReadAt(rd, b) ==
    IF b = << >> THEN [ev |-> Ev("Eof", ""), rd |-> [rd EXCEPT !.buf = b]]
    ELSE ReadToken(rd, b, Head(b))

\* Reader::read_event: the next event and the reader after it.  End of
\* input is Eof even with elements open.
ReadEvent(rd) == ReadAt(rd, SkipWs(rd.buf))

\* Reader::read_to_end(end): skip to the end tag matching the start tag just
\* read.  `stop` is the unread text at the position before that end tag.
RECURSIVE ReadToEnd(_, _, _)
ReadToEndMatch(r, rd, end, nested) ==
    CASE r.ev.type = "Err" ->
           [ok |-> FALSE, err |-> r.ev.err, rd |-> r.rd, stop |-> rd.buf]
      [] r.ev.type = "Eof" ->
           [ok |-> FALSE, err |-> Err("Xml", "UnexpectedEof(end tag)"),
            rd |-> r.rd, stop |-> rd.buf]
      [] r.ev.type = "Start" /\ r.ev.name = end ->
           ReadToEnd(r.rd, end, nested + 1)
      [] r.ev.type = "End" /\ r.ev.name = end ->
           IF nested = 0
           THEN [ok |-> TRUE, err |-> Err("", ""), rd |-> r.rd, stop |-> rd.buf]
           ELSE ReadToEnd(r.rd, end, nested - 1)
      [] OTHER -> ReadToEnd(r.rd, end, nested)

ReadToEnd(rd, end, nested) == ReadToEndMatch(ReadEvent(rd), rd, end, nested)

\* What the declaration of the entity stands for.
EntityValue == "root:x:0:0"

\* A read_text that expands the entity references of the span.
SpanTextExpanded(r, rd) ==
    [ok |-> r.ok, err |-> r.err, rd |-> r.rd,
     text |-> IF r.ok
              THEN [i \in 1..(Len(rd.buf) - Len(r.stop)) |->
                       IF rd.buf[i] = EntityRef THEN EntityValue ELSE rd.buf[i]]
              ELSE << >>]

\* The text of the span read_to_end returned, not unescaped.
SpanText(r, rd) ==
    [ok |-> r.ok, err |-> r.err, rd |-> r.rd,
     text |-> IF r.ok THEN SubSeq(rd.buf, 1, Len(rd.buf) - Len(r.stop))
              ELSE << >>]

\* Reader::read_text(end): the raw text between the start tag just read and
\* its end tag, markup and entity references included.
ReadText(rd, end) == SpanText(ReadToEnd(rd, end, 0), rd)

----------------------------------------------------------------------------
(* models.rs *)

W_pass == <<"p", "a", "s", "s">>
W_fail == <<"f", "a", "i", "l">>
W_neutral == <<"n", "e", "u", "t", "r", "a", "l">>
W_none == <<"n", "o", "n", "e">>
W_reject == <<"r", "e", "j", "e", "c", "t">>
W_quarantine == <<"q", "u", "a", "r", "a", "n", "t", "i", "n", "e">>

\* impl FromStr for DkimVerdict / SpfVerdict: << >> is Err.
VerdictFromStr(s) ==
    LET l == ToLower(s) IN
    CASE l = W_pass -> <<"Pass">>
      [] l = W_fail -> <<"Fail">>
      [] l = W_neutral -> <<"Neutral">>
      [] l = W_none -> <<"None">>
      [] OTHER -> << >>

\* Result::unwrap_or
UnwrapOr(r, default) == IF r = << >> THEN default ELSE r[1]

\* The policy #[derive(Default)] would give: pct 0.
DerivedDefaultPolicy ==
    [domain |-> << >>, adkim |-> "Relaxed", aspf |-> "Relaxed",
     policy |-> "None", pct |-> 0]

\* The DmarcPolicy parse_dmarc_xml starts from.
InitialPolicy ==
    [domain |-> << >>, adkim |-> "Relaxed", aspf |-> "Relaxed",
     policy |-> "None", pct |-> 100]

DefaultSpf == [domain |-> << >>, scope |-> << >>, result |-> "None"]

\* PolicyEvaluated::default()
DefaultPolicyEvaluated == [disposition |-> << >>, dkim |-> "None", spf |-> "None"]

\* The DmarcRecord a <record> start tag opens.
NewRecord ==
    [source_ip |-> << >>, count |-> 0, header_from |-> << >>,
     envelope_from |-> << >>, policy_evaluated |-> DefaultPolicyEvaluated,
     dkim |-> << >>, spf |-> DefaultSpf,
     date_range |-> [begin |-> 0, end |-> 0]]

----------------------------------------------------------------------------
(* xml_parser.rs: the DOCTYPE pre-pass *)

RecursiveEntitiesError == Err("Xml", "UnexpectedEof(Recursive entities detected)")
DepthLimitError == Err("Xml", "UnexpectedEof(XML recursion depth limit exceeded)")

\* A pre-pass that tolerates two entity declarations.
CutBlockLenient(xml, start, end) ==
    IF MatchCount(SubSeq(xml, start, start + end - 1), EntityMarker) >= 3
    THEN << >>
    ELSE <<SubSeq(xml, 1, start - 1) \o From(xml, start + end)>>

\* Lines 32-42, with `doctype` the block from "<!DOCTYPE" through "]>":
\* << >> when the text is rejected, otherwise <<the text without the block>>.
CutBlock(xml, start, end) ==
    IF MatchCount(SubSeq(xml, start, start + end - 1), EntityMarker) >= 2
    THEN << >>
    ELSE <<SubSeq(xml, 1, start - 1) \o From(xml, start + end)>>

\* Line 31: `end` is where "]>" is found in xml_content[start..], 0 for None.
FromDoctype(xml, start, end) ==
    IF end # 0 THEN CutBlock(xml, start, end) ELSE <<xml>>

\* Line 30: `start` is where "<!DOCTYPE" is found, 0 for None.
AtDoctype(xml, start) ==
    IF start # 0 THEN FromDoctype(xml, start, Find(From(xml, start), BlockEnd))
    ELSE <<xml>>

\* let cleaned_xml = ...: <<cleaned_xml>>, or << >> for the early return.
CleanXml(xml) == AtDoctype(xml, Find(xml, DoctypeMarker))

----------------------------------------------------------------------------
(* xml_parser.rs: the sub-scans *)

Scanned(value, rd) == [ok |-> TRUE, err |-> Err("", ""), value |-> value, rd |-> rd]
ScanFailed(e, value, rd) == [ok |-> FALSE, err |-> e, value |-> value, rd |-> rd]

\* Alignment by the whole word, as FromStr for AlignmentMode reads it.
AlignmentOfWholeWord(text) ==
    IF ToLower(text) \in {<<"s">>, <<"s", "t", "r", "i", "c", "t">>}
    THEN "Strict" ELSE "Relaxed"

AlignmentOf(text) ==
    IF StartsWith(ToLower(text), "s") THEN "Strict" ELSE "Relaxed"

PolicyTypeOf(text) ==
    LET l == ToLower(text) IN
    CASE l = W_reject -> "Reject"
      [] l = W_quarantine -> "Quarantine"
      [] OTHER -> "None"

PctOf(text) == UnwrapOr(ParseU8(text), 100)

\* The arms of the match in parse_policy_published.
PolicySet(acc, name, text) ==
    CASE name = "domain" -> [acc EXCEPT !.domain = text]
      [] name = "adkim" -> [acc EXCEPT !.adkim = AlignmentOf(text)]
      [] name = "aspf" -> [acc EXCEPT !.aspf = AlignmentOf(text)]
      [] name = "p" -> [acc EXCEPT !.policy = PolicyTypeOf(text)]
      [] name = "pct" -> [acc EXCEPT !.pct = PctOf(text)]

\* The loop of parse_policy_published.
RECURSIVE PolicyScan(_, _)
PolicyField(name, t, acc) ==
    IF t.ok THEN PolicyScan(t.rd, PolicySet(acc, name, Trim(t.text)))
    ELSE ScanFailed(t.err, acc, t.rd)

PolicyMatch(r, acc) ==
    CASE r.ev.type = "Start" ->
           IF r.ev.name \in {"domain", "adkim", "aspf", "p", "pct"}
           THEN PolicyField(r.ev.name, ReadText(r.rd, r.ev.name), acc)
           ELSE PolicyScan(r.rd, acc)
      [] r.ev.type = "End" ->
           IF r.ev.name = "policy_published" THEN Scanned(acc, r.rd)
           ELSE PolicyScan(r.rd, acc)
      [] r.ev.type = "Eof" -> Scanned(acc, r.rd)
      [] r.ev.type = "Err" -> ScanFailed(r.ev.err, acc, r.rd)
      [] OTHER -> PolicyScan(r.rd, acc)

PolicyScan(rd, acc) == PolicyMatch(ReadEvent(rd), acc)

parse_policy_published(rd) ==
    PolicyScan(rd, [domain |-> << >>, adkim |-> "Relaxed", aspf |-> "Relaxed",
                    policy |-> "None", pct |-> 100])

\* The arms of the match in parse_dkim.
DkimSet(acc, name, text) ==
    CASE name = "domain" -> [acc EXCEPT !.domain = text]
      [] name = "selector" -> [acc EXCEPT !.selector = text]
      [] name = "result" ->
           [acc EXCEPT !.result = UnwrapOr(VerdictFromStr(text), "None")]

\* The loop of parse_dkim.
RECURSIVE DkimScan(_, _)
DkimField(name, t, acc) ==
    IF t.ok THEN DkimScan(t.rd, DkimSet(acc, name, Trim(t.text)))
    ELSE ScanFailed(t.err, acc, t.rd)

\* A sub-scan that takes a tokenizer error for the end of the element.
DkimMatchRecovering(r, acc) ==
    CASE r.ev.type = "Start" ->
           IF r.ev.name \in {"domain", "selector", "result"}
           THEN DkimField(r.ev.name, ReadText(r.rd, r.ev.name), acc)
           ELSE DkimScan(r.rd, acc)
      [] r.ev.type = "End" ->
           IF r.ev.name = "dkim" THEN Scanned(acc, r.rd) ELSE DkimScan(r.rd, acc)
      [] r.ev.type \in {"Eof", "Err"} -> Scanned(acc, r.rd)
      [] OTHER -> DkimScan(r.rd, acc)

DkimMatch(r, acc) ==
    CASE r.ev.type = "Start" ->
           IF r.ev.name \in {"domain", "selector", "result"}
           THEN DkimField(r.ev.name, ReadText(r.rd, r.ev.name), acc)
           ELSE DkimScan(r.rd, acc)
      [] r.ev.type = "End" ->
           IF r.ev.name = "dkim" THEN Scanned(acc, r.rd) ELSE DkimScan(r.rd, acc)
      [] r.ev.type = "Eof" -> Scanned(acc, r.rd)
      [] r.ev.type = "Err" -> ScanFailed(r.ev.err, acc, r.rd)
      [] OTHER -> DkimScan(r.rd, acc)

DkimScan(rd, acc) == DkimMatch(ReadEvent(rd), acc)

parse_dkim(rd) ==
    DkimScan(rd, [domain |-> << >>, selector |-> << >>, result |-> "None"])

\* The arms of the match in parse_spf.
SpfSet(acc, name, text) ==
    CASE name = "domain" -> [acc EXCEPT !.domain = text]
      [] name = "scope" -> [acc EXCEPT !.scope = text]
      [] name = "result" ->
           [acc EXCEPT !.result = UnwrapOr(VerdictFromStr(text), "None")]

\* The loop of parse_spf.
RECURSIVE SpfScan(_, _)
SpfField(name, t, acc) ==
    IF t.ok THEN SpfScan(t.rd, SpfSet(acc, name, Trim(t.text)))
    ELSE ScanFailed(t.err, acc, t.rd)

SpfMatch(r, acc) ==
    CASE r.ev.type = "Start" ->
           IF r.ev.name \in {"domain", "scope", "result"}
           THEN SpfField(r.ev.name, ReadText(r.rd, r.ev.name), acc)
           ELSE SpfScan(r.rd, acc)
      [] r.ev.type = "End" ->
           IF r.ev.name = "spf" THEN Scanned(acc, r.rd) ELSE SpfScan(r.rd, acc)
      [] r.ev.type = "Eof" -> Scanned(acc, r.rd)
      [] r.ev.type = "Err" -> ScanFailed(r.ev.err, acc, r.rd)
      [] OTHER -> SpfScan(r.rd, acc)

SpfScan(rd, acc) == SpfMatch(ReadEvent(rd), acc)

parse_spf(rd) ==
    SpfScan(rd, [domain |-> << >>, scope |-> << >>, result |-> "None"])

----------------------------------------------------------------------------
(* xml_parser.rs: parse_dmarc_xml *)

max_depth == 20

NoReader == [live |-> FALSE, buf |-> << >>, opened |-> << >>]
NoEvent == Ev("", "")

Ok(recs, pol) == [ok |-> TRUE, value |-> <<[records |-> recs, policy |-> pol]>>,
                  err |-> Err("", "")]
Error(e) == [ok |-> FALSE, value |-> << >>, err |-> e]

\* return Err(e)
Failed(st, e) == [st EXCEPT !.pc = "done", !.result = <<Error(e)>>]

\* Lines 51-64: the reader over the cleaned text and the locals of the main
\* pass; the early return of line 35 when the pre-pass rejected the text.
\* The main pass with a depth counter that outlives the call.
EnterMainPassKeepingDepth(st, cleaned_xml) ==
    IF cleaned_xml = << >> THEN Failed(st, RecursiveEntitiesError)
    ELSE [st EXCEPT !.pc = "loop",
                    !.reader = [live |-> TRUE, buf |-> cleaned_xml[1],
                                opened |-> << >>],
                    !.records = << >>,
                    !.policy = InitialPolicy,
                    !.current_record = << >>]

EnterMainPass(st, cleaned_xml) ==
    IF cleaned_xml = << >> THEN Failed(st, RecursiveEntitiesError)
    ELSE [st EXCEPT !.pc = "loop",
                    !.reader = [live |-> TRUE, buf |-> cleaned_xml[1],
                                opened |-> << >>],
                    !.records = << >>,
                    !.policy = InitialPolicy,
                    !.current_record = << >>,
                    !.depth = 0]

PrePassStep(st) == EnterMainPass(st, CleanXml(st.xml_content))

\* A <record> start tag that leaves an open record as it is.
OnRecordStartKeepingOpen(st) ==
    IF st.current_record # << >> THEN st
    ELSE [st EXCEPT !.current_record = <<NewRecord>>]

\* b"record" =>
OnRecordStart(st) == [st EXCEPT !.current_record = <<NewRecord>>]

\* policy = parse_policy_published(&mut reader)?
SetPolicy(st, r) ==
    IF r.ok THEN [st EXCEPT !.reader = r.rd, !.policy = r.value]
    ELSE Failed([st EXCEPT !.reader = r.rd], r.err)

\* b"policy_published" =>
OnPolicyPublished(st) == SetPolicy(st, parse_policy_published(st.reader))

\* record.source_ip = reader.read_text(e.name())?.trim().to_string()
SetSourceIp(st, t) ==
    IF t.ok
    THEN [st EXCEPT !.reader = t.rd, !.current_record[1].source_ip = Trim(t.text)]
    ELSE Failed([st EXCEPT !.reader = t.rd], t.err)

\* The text read before the record is looked for.
OnSourceIpReadFirst(st) ==
    IF st.current_record # << >>
    THEN SetSourceIp(st, ReadText(st.reader, "source_ip"))
    ELSE IF ReadText(st.reader, "source_ip").ok
    THEN [st EXCEPT !.reader = ReadText(st.reader, "source_ip").rd]
    ELSE Failed(st, ReadText(st.reader, "source_ip").err)

\* b"source_ip" =>
OnSourceIp(st) ==
    IF st.current_record = << >> THEN st
    ELSE SetSourceIp(st, ReadText(st.reader, "source_ip"))

\* The count parsed from the text as read, white space included.
SetCountUntrimmed(st, t) ==
    IF t.ok
    THEN [st EXCEPT !.reader = t.rd,
                    !.current_record[1].count = UnwrapOr(ParseU32(t.text), 0)]
    ELSE Failed([st EXCEPT !.reader = t.rd], t.err)

\* A count whose text does not parse fails the call.
SetCountOrFail(st, t) ==
    IF t.ok /\ ParseU32(Trim(t.text)) # << >>
    THEN [st EXCEPT !.reader = t.rd,
                    !.current_record[1].count = ParseU32(Trim(t.text))[1]]
    ELSE Failed([st EXCEPT !.reader = t.rd], Err("Parse", "count"))

\* record.count = reader.read_text(e.name())?.trim().parse().unwrap_or(0)
SetCount(st, t) ==
    IF t.ok
    THEN [st EXCEPT !.reader = t.rd,
                    !.current_record[1].count = UnwrapOr(ParseU32(Trim(t.text)), 0)]
    ELSE Failed([st EXCEPT !.reader = t.rd], t.err)

\* b"count" =>
OnCount(st) ==
    IF st.current_record = << >> THEN st
    ELSE SetCount(st, ReadText(st.reader, "count"))

\* record.header_from = reader.read_text(e.name())?.trim().to_string()
SetHeaderFrom(st, t) ==
    IF t.ok
    THEN [st EXCEPT !.reader = t.rd,
                    !.current_record[1].header_from = Trim(t.text)]
    ELSE Failed([st EXCEPT !.reader = t.rd], t.err)

\* b"header_from" =>
OnHeaderFrom(st) ==
    IF st.current_record = << >> THEN st
    ELSE SetHeaderFrom(st, ReadText(st.reader, "header_from"))

\* let dkim = parse_dkim(&mut reader)?; record.dkim.push(dkim)
PushDkim(st, r) ==
    IF r.ok
    THEN [st EXCEPT !.reader = r.rd, !.current_record[1].dkim = Append(@, r.value)]
    ELSE Failed([st EXCEPT !.reader = r.rd], r.err)

\* b"dkim" =>
OnDkim(st) ==
    IF st.current_record = << >> THEN st
    ELSE PushDkim(st, parse_dkim(st.reader))

\* record.spf = parse_spf(&mut reader)?
SetSpf(st, r) ==
    IF r.ok THEN [st EXCEPT !.reader = r.rd, !.current_record[1].spf = r.value]
    ELSE Failed([st EXCEPT !.reader = r.rd], r.err)

\* b"spf" =>
OnSpf(st) ==
    IF st.current_record = << >> THEN st
    ELSE SetSpf(st, parse_spf(st.reader))

\* depth += 1
Deeper(st) == [st EXCEPT !.depth = @ + 1]

\* A match with an arm for <envelope_from>, which sets the field.
StartMatchReadingEnvelope(s) ==
    IF s.depth > max_depth THEN Failed(s, DepthLimitError)
    ELSE CASE s.event.name = "record" -> OnRecordStart(s)
           [] s.event.name = "policy_published" -> OnPolicyPublished(s)
           [] s.event.name = "source_ip" -> OnSourceIp(s)
           [] s.event.name = "count" -> OnCount(s)
           [] s.event.name = "header_from" -> OnHeaderFrom(s)
           [] s.event.name = "dkim" -> OnDkim(s)
           [] s.event.name = "spf" -> OnSpf(s)
           [] s.event.name = "envelope_from" /\ s.current_record # << >>
                -> [s EXCEPT !.current_record[1].envelope_from = <<"e">>]
           [] OTHER -> s

\* if depth > max_depth { return Err(..) }, then match e.name().as_ref()
StartMatch(s) ==
    IF s.depth > max_depth THEN Failed(s, DepthLimitError)
    ELSE CASE s.event.name = "record" -> OnRecordStart(s)
           [] s.event.name = "policy_published" -> OnPolicyPublished(s)
           [] s.event.name = "source_ip" -> OnSourceIp(s)
           [] s.event.name = "count" -> OnCount(s)
           [] s.event.name = "header_from" -> OnHeaderFrom(s)
           [] s.event.name = "dkim" -> OnDkim(s)
           [] s.event.name = "spf" -> OnSpf(s)
           [] OTHER -> s

\* Ok(Event::Start(ref e)) =>
OnStart(st) == StartMatch(Deeper(st))

\* A finished record put in front of the earlier ones.
OnRecordEndPrepending(st) ==
    IF st.current_record # << >>
    THEN [st EXCEPT !.records = <<st.current_record[1]>> \o @,
                    !.current_record = << >>]
    ELSE st

\* b"record" => if let Some(record) = current_record.take() { records.push(record) }
OnRecordEnd(st) ==
    IF st.current_record # << >>
    THEN [st EXCEPT !.records = Append(@, st.current_record[1]),
                    !.current_record = << >>]
    ELSE st

\* depth = depth.saturating_sub(1)
Shallower(st) == [st EXCEPT !.depth = IF @ > 0 THEN @ - 1 ELSE 0]

\* Ok(Event::End(ref e)) =>
OnEnd(st) ==
    Shallower(IF st.event.name = "record" THEN OnRecordEnd(st) ELSE st)

\* Ok(Event::Eof) => break, then Ok((records, policy))
OnEof(st) == [st EXCEPT !.pc = "done", !.result = <<Ok(st.records, st.policy)>>]

\* Err(e) => return Err(DmarcError::Xml(e))
OnError(st) == Failed(st, st.event.err)

\* match reader.read_event() { .. }
EventMatch(s) ==
    CASE s.event.type = "Start" -> OnStart(s)
      [] s.event.type = "End" -> OnEnd(s)
      [] s.event.type = "Eof" -> OnEof(s)
      [] s.event.type = "Err" -> OnError(s)
      [] OTHER -> s

Received(st, r) == [st EXCEPT !.reader = r.rd, !.event = r.ev]

\* One iteration of the main loop.
LoopStep(st) == EventMatch(Received(st, ReadEvent(st.reader)))

Entry(xml) ==
    [xml_content |-> xml, pc |-> "prepass", reader |-> NoReader,
     records |-> << >>, policy |-> InitialPolicy, current_record |-> << >>,
     depth |-> 0, event |-> NoEvent, result |-> << >>]

RECURSIVE RunToEnd(_)
RunToEnd(st) ==
    IF st.pc = "done" THEN st.result[1]
    ELSE IF st.pc = "prepass" THEN RunToEnd(PrePassStep(st))
    ELSE RunToEnd(LoopStep(st))

\* The value parse_dmarc_xml(xml) returns.
parse_dmarc_xml(xml) == RunToEnd(Entry(xml))

----------------------------------------------------------------------------
(* The texts parse_dmarc_xml is called with *)

RECURSIVE Concat(_)
Concat(ss) == IF ss = << >> THEN << >> ELSE Head(ss) \o Concat(Tail(ss))

RECURSIVE Repeat(_, _)
Repeat(s, n) == IF n = 0 THEN << >> ELSE s \o Repeat(s, n - 1)

SeqsUpTo(S, n) == UNION {[1..k -> S] : k \in 0..n}

Prefixes(s) == {SubSeq(s, 1, n) : n \in 0..Len(s)}

Elem(n, body) == <<STag(n)>> \o body \o <<ETag(n)>>

IpText == <<"1", ".", "2", ".", "3", ".", "4">>
DomainText == <<"e", "x", "a", "m", "p", "l", "e", ".", "c", "o", "m">>

\* spec.md section 8, the round-trip document (src/src/tests.rs:17-25
\* without its indentation).
MinimalDoc ==
    <<STag("feedback"), STag("record")>>
    \o Elem("source_ip", IpText) \o Elem("count", <<"1">>)
    \o Elem("header_from", DomainText)
    \o <<ETag("record"), ETag("feedback")>>

\* src/src/tests.rs:17-25 with white space between the elements.
IndentedDoc ==
    <<" ", STag("feedback"), " ", STag("record"), " ">>
    \o Elem("source_ip", IpText) \o <<" ">> \o Elem("count", <<"1">>)
    \o <<" ">> \o Elem("header_from", DomainText)
    \o <<" ", ETag("record"), " ", ETag("feedback"), " ">>

\* How many atoms a freely composed DOCTYPE prolog may have.
MaxPrologLen == 4

PrologAtoms == {DoctypeMarker, "[", EntityMarker, ">", BlockEnd, SpacedEnd}

\* tests/security.rs:59-61 and 101-111, and variations.
XxeProlog == <<XmlDecl, DoctypeMarker, "[", EntityMarker, ">", BlockEnd>>
LaughsProlog ==
    <<XmlDecl, DoctypeMarker, "[">> \o Repeat(<<EntityMarker, ">">>, 9)
    \o <<BlockEnd>>
NamedProlog == <<DoctypeMarker, ">">>
SpacedProlog ==
    <<DoctypeMarker, "[", EntityMarker, ">", EntityMarker, ">", SpacedEnd>>
GivenPrologs == {XxeProlog, LaughsProlog, NamedProlog, SpacedProlog}

\* A record whose character data holds "]>" and an entity reference.
BracketDoc ==
    <<STag("feedback"), STag("record")>>
    \o Elem("source_ip", <<EntityRef, " ">>)
    \o Elem("header_from", <<"e", BlockEnd>>)
    \o <<ETag("record"), ETag("feedback")>>

PrologDocs ==
    {p \o BracketDoc : p \in SeqsUpTo(PrologAtoms, MaxPrologLen)}
    \cup {p \o b : p \in GivenPrologs, b \in {MinimalDoc, BracketDoc}}

\* A prolog put anywhere in a document.
Insert(s, i, p) == SubSeq(s, 1, i) \o p \o From(s, i + 1)
EmbeddedDocs ==
    {Insert(b, i, p) : p \in GivenPrologs \cup {<<DoctypeMarker, "[", BlockEnd>>},
                       i \in 0..Len(BracketDoc),
                       b \in {BracketDoc}}

\* How many elements <a> are nested in one another.
MaxNest == 21

\* `k` nested <a> elements inside the element(s) `outer` of a report.
NestDoc(outer, k) ==
    <<STag("feedback")>>
    \o [i \in 1..Len(outer) |-> STag(outer[i])]
    \o Repeat(<<STag("a")>>, k) \o Repeat(<<ETag("a")>>, k)
    \o [i \in 1..Len(outer) |-> ETag(outer[Len(outer) + 1 - i])]
    \o <<ETag("feedback")>>

NestContexts ==
    {<< >>, <<"policy_published">>, <<"record", "dkim">>, <<"record", "spf">>,
     <<"record", "source_ip">>, <<"record">>, <<"policy_published", "domain">>}

NestDocs == {NestDoc(c, k) : c \in NestContexts, k \in 0..MaxNest}

\* How many records a report has.
MaxRecords == 7

DkimElem == Elem("dkim", Elem("domain", <<"d">>) \o Elem("result", W_pass))
SpfElem == Elem("spf", Elem("domain", <<"d">>) \o Elem("result", W_fail))

RecordShapes ==
    {<< >>,
     Elem("source_ip", <<"1">>) \o Elem("count", <<"2">>)
       \o Elem("header_from", <<"e">>),
     Elem("source_ip", <<"1">>) \o Elem("count", <<"2">>)
       \o Elem("header_from", <<"e">>) \o DkimElem \o SpfElem,
     <<EmptyTag("row")>> \o Elem("row", <<STag("auth_results")>> \o DkimElem
                                        \o <<ETag("auth_results")>>)}

ReportDoc(shape, n) ==
    <<STag("feedback")>> \o Repeat(Elem("record", shape), n)
    \o <<ETag("feedback")>>

ReportDocs == {ReportDoc(sh, n) : sh \in RecordShapes, n \in 0..MaxRecords}

\* How many pieces a freely composed report has.
MaxPieces == 3

Pieces ==
    {<<STag("feedback")>>, <<ETag("feedback")>>,
     <<STag("record")>>, <<ETag("record")>>,
     Elem("source_ip", <<" ", "1", " ">>),
     Elem("count", <<"7">>),
     <<STag("source_ip"), EntityRef>>,
     DkimElem, <<STag("dkim")>>, <<ETag("dkim")>>,
     SpfElem,
     Elem("policy_published", Elem("pct", <<"5", "0">>)),
     <<STag("policy_published")>>,
     Elem("pct", <<"2", "0", "0">>),
     <<EmptyTag("row")>>}

PieceDocs == {Concat(f) : f \in SeqsUpTo(Pieces, MaxPieces)}

PolicyTexts ==
    {<< >>, <<"0">>, <<"1", "0", "0">>, <<" ", "9", "9", " ">>, <<"1", "0", "1">>,
     <<"2", "5", "5">>, <<"2", "5", "6">>, <<"+", "7">>, <<"-", "1">>,
     <<"s">>, <<"S", "t">>, <<"r">>, W_reject, <<"Q">> \o Tail(W_quarantine),
     <<EntityRef>>}

PolicyDocs ==
    {<<STag("feedback")>>
       \o Elem("policy_published", Elem(n, t) \o Elem("domain", DomainText))
       \o tail :
     n \in {"pct", "adkim", "aspf", "p", "domain"}, t \in PolicyTexts,
     tail \in {<< >>, <<ETag("feedback")>>}}
    \cup
    {<<STag("feedback"), STag("policy_published")>> \o Elem("pct", t)
       \o <<ETag("policy_published"), STag("policy_published")>> \o more :
     t \in PolicyTexts,
     more \in {<< >>, <<ETag("policy_published")>>, Elem("p", W_reject)}}

\* One record with the three fields, as MinimalDoc, with other texts.
OneRecordDoc(ip, count, from) ==
    <<STag("feedback"), STag("record")>>
    \o Elem("source_ip", ip) \o Elem("count", count)
    \o Elem("header_from", from)
    \o <<ETag("record"), ETag("feedback")>>

IpSamples == {IpText, <<" ", "1", " ">>, <<EntityRef>>}
CountSamples == {<<"1">>, <<" ", "4", "2">>}
FromSamples == {DomainText, <<"e", " ">>}

OneRecordDocs ==
    {OneRecordDoc(ip, c, f) : ip \in IpSamples, c \in CountSamples,
                              f \in FromSamples}

\* Records that differ in their source_ip, one after the other; the second
\* with a <dkim>, the third with an <spf>, and a <record> inside a <record>.
RecordOf(ip, more) ==
    Elem("record", Elem("source_ip", ip) \o Elem("count", <<"1">>) \o more)

SeveralDoc ==
    <<STag("feedback")>> \o RecordOf(<<"1">>, << >>) \o RecordOf(<<"2">>, DkimElem)
    \o RecordOf(<<"3">>, SpfElem) \o <<ETag("feedback")>>

NestedRecordDoc ==
    <<STag("feedback"), STag("record")>> \o Elem("source_ip", <<"1">>)
    \o RecordOf(<<"2">>, << >>) \o Elem("count", <<"7">>)
    \o <<ETag("record")>> \o RecordOf(<<"3">>, << >>) \o <<ETag("feedback")>>

SeveralDocs == Prefixes(SeveralDoc) \cup Prefixes(NestedRecordDoc)

\* Texts of the enumerated values: as written, trimmed, and the verdict
\* and disposition the trimmed text spells whatever its case.
EnumText(text, trimmed, verdict, disposition) ==
    [text |-> text, trimmed |-> trimmed, verdict |-> verdict,
     disposition |-> disposition]

EnumTexts ==
    {EnumText(<< >>, << >>, "None", "None"),
     EnumText(W_pass, W_pass, "Pass", "None"),
     EnumText(<<"P", "A", "S", "S">>, <<"P", "A", "S", "S">>, "Pass", "None"),
     EnumText(<<"F">> \o Tail(W_fail), <<"F">> \o Tail(W_fail), "Fail", "None"),
     EnumText(W_neutral, W_neutral, "Neutral", "None"),
     EnumText(<<"N", "O", "N", "E">>, <<"N", "O", "N", "E">>, "None", "None"),
     EnumText(W_pass \o <<"x">>, W_pass \o <<"x">>, "None", "None"),
     EnumText(W_reject, W_reject, "None", "Reject"),
     EnumText(<<"R">> \o Tail(W_reject), <<"R">> \o Tail(W_reject), "None", "Reject"),
     EnumText(<<"Q">> \o Tail(W_quarantine), <<"Q">> \o Tail(W_quarantine),
              "None", "Quarantine"),
     EnumText(<<"s">>, <<"s">>, "None", "None"),
     EnumText(<<"S", "x">>, <<"S", "x">>, "None", "None"),
     EnumText(<<"x", "s">>, <<"x", "s">>, "None", "None"),
     EnumText(<<"r">>, <<"r">>, "None", "None"),
     EnumText(<<EntityRef>>, <<EntityRef>>, "None", "None"),
     EnumText(<<" ">> \o W_fail \o <<" ">>, W_fail, "Fail", "None"),
     EnumText(<<" ", "s">>, <<"s">>, "None", "None")}

\* A report whose <adkim> holds `a` and whose <aspf>, <p> and DKIM and SPF
\* <result> hold `t`.
EnumDoc(a, t) ==
    <<STag("feedback")>>
    \o Elem("policy_published",
            Elem("adkim", a) \o Elem("aspf", t) \o Elem("p", t))
    \o Elem("record", Elem("dkim", Elem("result", t))
                      \o Elem("spf", Elem("result", t)))
    \o <<ETag("feedback")>>

EnumDocs == {EnumDoc(a.text, t.text) : a \in EnumTexts, t \in EnumTexts}

\* <count> texts and the count each stands for.
CountText(text, value) == [text |-> text, value |-> value]

CountTexts ==
    {CountText(<< >>, 0),
     CountText(<<"0">>, 0),
     CountText(<<"0", "0", "7">>, 7),
     CountText(<<" ", "4", "2", " ">>, 42),
     CountText(<<"+", "7">>, 7),
     CountText(<<"-", "1">>, 0),
     CountText(<<"x">>, 0),
     CountText(<<"1", ".", "5">>, 0),
     CountText(<<"1", " ", "2">>, 0),
     CountText(<<"1", "e", "3">>, 0),
     CountText(<<EntityRef>>, 0),
     CountText(WordMaxDigits, 2147483647),
     CountText(<<"2", "1", "4", "7", "4", "8", "3", "6", "4", "8">>,
               <<"2", "1", "4", "7", "4", "8", "3", "6", "4", "8">>),
     CountText(U32MaxDigits, U32MaxDigits),
     CountText(<<"4", "2", "9", "4", "9", "6", "7", "2", "9", "6">>, 0),
     CountText(<<"9", "9", "9", "9", "9", "9", "9", "9", "9", "9", "9">>, 0)}

\* Two records: the first with <count> `c` before its <header_from>, the
\* second with count 5.
CountDoc(c) ==
    <<STag("feedback")>>
    \o Elem("record", Elem("source_ip", <<"1">>) \o Elem("count", c)
                      \o Elem("header_from", <<"e">>))
    \o Elem("record", Elem("count", <<"5">>) \o Elem("source_ip", <<"2">>))
    \o <<ETag("feedback")>>

CountDocs == {CountDoc(c.text) : c \in CountTexts}

\* <dkim> and <spf> elements of a record, each with the result the text of
\* its children spells; and elements that stand outside the record.
DkimOf(dom, sel, res) ==
    Elem("dkim", Elem("domain", dom) \o Elem("selector", sel)
                   \o Elem("result", res))

SpfOf(dom, scp, res) ==
    Elem("spf", Elem("domain", dom) \o Elem("scope", scp)
                  \o Elem("result", res))

AuthPiece(xml, kind, value) == [xml |-> xml, kind |-> kind, value |-> value]

NoAuth == [domain |-> << >>, selector |-> << >>, scope |-> << >>, result |-> "None"]

AuthPieces ==
    {AuthPiece(DkimOf(<<"a">>, <<"s">>, W_pass), "dkim",
               [NoAuth EXCEPT !.domain = <<"a">>, !.selector = <<"s">>,
                              !.result = "Pass"]),
     AuthPiece(Elem("dkim", Elem("result", W_fail)), "dkim",
               [NoAuth EXCEPT !.result = "Fail"]),
     AuthPiece(Elem("dkim", << >>), "dkim", NoAuth),
     AuthPiece(<<EmptyTag("dkim")>>, "dkim", NoAuth),
     AuthPiece(SpfOf(<<"a">>, <<"m">>, W_pass), "spf",
               [NoAuth EXCEPT !.domain = <<"a">>, !.scope = <<"m">>,
                              !.result = "Pass"]),
     AuthPiece(Elem("spf", Elem("result", W_fail)), "spf",
               [NoAuth EXCEPT !.result = "Fail"]),
     AuthPiece(Elem("spf", << >>), "spf", NoAuth),
     AuthPiece(<<EmptyTag("spf")>>, "spf", NoAuth)}

\* How many <dkim> and <spf> elements a record has.
MaxAuth == 2

AuthLists == SeqsUpTo(AuthPieces, MaxAuth)

Outside ==
    {<< >>,
     DkimOf(<<"o">>, <<"t">>, W_pass) \o SpfOf(<<"o">>, <<"h">>, W_pass)
       \o Elem("source_ip", <<"9">>) \o Elem("count", <<"9">>)
       \o Elem("header_from", <<"x">>)}

AuthDoc(before, inside, after) ==
    <<STag("feedback")>> \o before
    \o Elem("record", Concat([i \in 1..Len(inside) |-> inside[i].xml]))
    \o after \o <<ETag("feedback")>>

AuthDocs ==
    {AuthDoc(b, l, a) : b \in Outside, l \in AuthLists, a \in Outside}

\* How many elements a record of an evaluated report holds.
MaxEval == 2

\* What a <row> and an <identifiers> block of a report hold: the evaluated
\* policy with its verdict elements, the date range, the envelope sender;
\* and the authentication results.
EvaluatedElem ==
    Elem("policy_evaluated",
         Elem("disposition", W_reject) \o Elem("dkim", W_pass) \o Elem("spf", W_fail))

EvalPieces ==
    {Elem("envelope_from", <<"e">>),
     Elem("date_range", Elem("begin", <<"1">>) \o Elem("end", <<"2">>)),
     EvaluatedElem,
     Elem("row", Elem("source_ip", <<"1">>) \o EvaluatedElem),
     Elem("policy_evaluated", Elem("spf", W_pass)),
     Elem("auth_results", DkimElem \o SpfElem)}

EvalLists == SeqsUpTo(EvalPieces, MaxEval)

EvalDoc(list) ==
    <<STag("feedback")>> \o Elem("record", Concat(list)) \o <<ETag("feedback")>>

EvalDocs == {EvalDoc(l) : l \in EvalLists}

\* How many complete <policy_published> elements a report holds.
MaxPolicies == 2

\* A <policy_published> element as written, and the policy it spells: the
\* fields it gives, the others at their defaults.
PolicyPiece(xml, value) == [xml |-> xml, value |-> value]

PolicyPieces ==
    {PolicyPiece(Elem("policy_published",
                      Elem("domain", <<"d">>) \o Elem("adkim", <<"s">>)
                      \o Elem("p", W_reject) \o Elem("pct", <<"5", "0">>)),
                 [domain |-> <<"d">>, adkim |-> "Strict", aspf |-> "Relaxed",
                  policy |-> "Reject", pct |-> 50]),
     PolicyPiece(Elem("policy_published", Elem("p", W_quarantine)),
                 [InitialPolicy EXCEPT !.policy = "Quarantine"]),
     PolicyPiece(Elem("policy_published", Elem("aspf", <<"s">>) \o Elem("pct", <<"7">>)),
                 [InitialPolicy EXCEPT !.aspf = "Strict", !.pct = 7]),
     PolicyPiece(Elem("policy_published", << >>), InitialPolicy),
     PolicyPiece(<<EmptyTag("policy_published")>>, InitialPolicy)}

\* The end of a report: closed, or a <policy_published> element cut off by
\* the end of the input, before or after a field.
CutOffPieces ==
    {PolicyPiece(<<STag("policy_published")>>, InitialPolicy),
     PolicyPiece(<<STag("policy_published")>> \o Elem("aspf", <<"s">>),
                 [InitialPolicy EXCEPT !.aspf = "Strict"])}

PolicyLists ==
    SeqsUpTo(PolicyPieces, MaxPolicies)
    \cup {Append(l, c) : l \in SeqsUpTo(PolicyPieces, MaxPolicies), c \in CutOffPieces}

RECURSIVE XmlOf(_)
XmlOf(list) == IF list = << >> THEN << >> ELSE Head(list).xml \o XmlOf(Tail(list))

PoliciesDoc(list) ==
    <<STag("feedback")>> \o XmlOf(list)
    \o (IF list # << >> /\ list[Len(list)] \in CutOffPieces
        THEN << >> ELSE <<ETag("feedback")>>)

PoliciesDocs == {PoliciesDoc(l) : l \in PolicyLists}

Documents ==
    PoliciesDocs \cup EvalDocs \cup AuthDocs \cup CountDocs \cup EnumDocs \cup SeveralDocs \cup OneRecordDocs \cup Prefixes(MinimalDoc) \cup Prefixes(IndentedDoc) \cup PrologDocs
    \cup EmbeddedDocs \cup NestDocs \cup ReportDocs \cup PieceDocs
    \cup PolicyDocs

----------------------------------------------------------------------------
(* config.rs, zip_handler.rs: files, limits and the steps of extract_zip *)

\* Config (the limits); max_compression_ratio is a whole number here.
Limits(fsize, dsize, nfiles, ratio, namelen) ==
    [max_file_size |-> fsize, max_decompressed_size |-> dsize,
     max_files_in_zip |-> nfiles, max_compression_ratio |-> ratio,
     max_filename_length |-> namelen]

\* A byte that does not decode as UTF-8.
InvalidByte == "#"

\* Read::read_to_string succeeds on these bytes.
IsUtf8(bytes) == \A i \in 1..Len(bytes) : bytes[i] # InvalidByte

\* An entry of a zip archive: its stored name, the compressed and
\* uncompressed sizes its header declares, the bytes it decompresses to,
\* and whether archive.by_index can open it.
ZipEntry(name, compressed, size, data, opens) ==
    [name |-> name, compressed_size |-> compressed, size |-> size,
     data |-> data, opens |-> opens]

\* A file: its name, its raw bytes, the entries ZipArchive::new finds in it
\* (<< >> for Err, <<entries>> for Ok) and the bytes GzDecoder decompresses
\* it to (<< >> for Err, <<bytes>> for Ok).
ZipFile(name, size, entries) ==
    [name |-> name, raw |-> Repeat(<<InvalidByte>>, size),
     zip |-> <<entries>>, gz |-> << >>]

GzFile(name, size, data) ==
    [name |-> name, raw |-> Repeat(<<InvalidByte>>, size),
     zip |-> << >>, gz |-> <<data>>]

TextFile(name, data) == [name |-> name, raw |-> data, zip |-> << >>, gz |-> << >>]

\* file.metadata()?.len()
FileSize(f) == Len(f.raw)

W_zip == <<"z", "i", "p">>
W_gz == <<"g", "z">>
W_xml == <<"x", "m", "l">>

\* Where the last "." of a name is, 0 when it has none.
LastDot(name) ==
    IF \E i \in 1..Len(name) : name[i] = "."
    THEN CHOOSE i \in 1..Len(name) :
             name[i] = "." /\ \A j \in (i + 1)..Len(name) : name[j] # "."
    ELSE 0

\* file_name.split('.').last().unwrap_or("").to_lowercase()
SplitLast(name) == ToLower(From(name, LastDot(name) + 1))

\* Path::extension(): << >> is None (no ".", or only a leading one).
PathExtension(name) ==
    IF LastDot(name) <= 1 THEN << >> ELSE <<From(name, LastDot(name) + 1)>>

\* inner_name.contains("..")
ContainsDotDot(name) ==
    \E i \in 1..(Len(name) - 1) : name[i] = "." /\ name[i + 1] = "."

\* A test of the start of the name only.
IsTraversalAtStart(name) ==
    \/ Len(name) >= 2 /\ name[1] = "." /\ name[2] = "."
    \/ StartsWith(name, "/")
    \/ StartsWith(name, "\\")

\* inner_name.contains("..") || starts_with('/') || starts_with('\\')
IsTraversal(name) ==
    ContainsDotDot(name) \/ StartsWith(name, "/") \/ StartsWith(name, "\\")

\* uncompressed_size as f64 / compressed_size as f64 > max_compression_ratio
RatioExceeds(size, compressed, max_ratio) == size > max_ratio * compressed

\* Result<Vec<String>>
Extracted(payloads) == [ok |-> TRUE, value |-> payloads, err |-> Err("", "")]
Rejected(kind, msg) == [ok |-> FALSE, value |-> << >>, err |-> Err(kind, msg)]

\* No file and no limits: extract_zip and process_file are not called.
NoFile == [name |-> << >>, raw |-> << >>, zip |-> << >>, gz |-> << >>]
NoConfig == Limits(0, 0, 0, 0, 0)

\* extract_zip before its first statement.
NewExtraction ==
    [pc |-> "size", index |-> 0, extracted |-> << >>, reads |-> << >>,
     result |-> << >>]

NotCalled == [NewExtraction EXCEPT !.pc = "idle"]

Return(x, r) == [x EXCEPT !.pc = "done", !.result = <<r>>]

\* The raw size held against the limit of the decompressed size.
CheckSizeAgainstDecompressed(x, f, c) ==
    IF FileSize(f) > c.max_decompressed_size
    THEN Return(x, Rejected("FileTooLarge", "File too large"))
    ELSE [x EXCEPT !.pc = "classify"]

\* Lines 28-32.
CheckSize(x, f, c) ==
    IF FileSize(f) > c.max_file_size
    THEN Return(x, Rejected("FileTooLarge", "File too large"))
    ELSE [x EXCEPT !.pc = "classify"]

\* Lines 33-38 and 91-93.
Route(x, ext) ==
    CASE ext = W_zip -> [x EXCEPT !.pc = "archive"]
      [] ext = W_gz -> [x EXCEPT !.pc = "gz"]
      [] ext = W_xml -> [x EXCEPT !.pc = "xml"]
      [] OTHER -> Return(x, Rejected("UnsupportedFile", "Unsupported file type"))

Classify(x, f) == Route(x, SplitLast(f.name))

\* An archive with as many entries as the limit is refused.
OpenZipBelowLimit(x, f, c) ==
    IF f.zip = << >> THEN Return(x, Rejected("Zip", "invalid Zip archive"))
    ELSE IF Len(f.zip[1]) >= c.max_files_in_zip
    THEN Return(x, Rejected("Anyhow", "Too many files in archive"))
    ELSE [x EXCEPT !.pc = "entry", !.index = 0, !.extracted = << >>]

\* Lines 40-44.
OpenZip(x, f, c) ==
    IF f.zip = << >> THEN Return(x, Rejected("Zip", "invalid Zip archive"))
    ELSE IF Len(f.zip[1]) > c.max_files_in_zip
    THEN Return(x, Rejected("Anyhow", "Too many files in archive"))
    ELSE [x EXCEPT !.pc = "entry", !.index = 0, !.extracted = << >>]

\* Lines 45-46 and 71: `index` is i of the loop, counted from 0.
ByIndex(x, entries) ==
    IF x.index >= Len(entries) THEN Return(x, Extracted(x.extracted))
    ELSE IF ~entries[x.index + 1].opens
    THEN Return(x, Rejected("Zip", "by_index"))
    ELSE [x EXCEPT !.pc = "name"]

\* Lines 47-51.
NameCheck(x, e) ==
    IF IsTraversal(e.name)
    THEN Return(x, Rejected("Format", "Path traversal attempt detected"))
    ELSE [x EXCEPT !.pc = "length"]

\* The ratio held against its limit before the length of the name.
LengthCheckAfterRatio(x, e, c) ==
    IF e.compressed_size > 0
       /\ RatioExceeds(e.size, e.compressed_size, c.max_compression_ratio)
    THEN Return(x, Rejected("Format", "Suspicious compression ratio"))
    ELSE IF Len(e.name) > c.max_filename_length
    THEN Return(x, Rejected("Format", "Filename too long"))
    ELSE [x EXCEPT !.pc = "ratio"]

\* Lines 52-55.
LengthCheck(x, e, c) ==
    IF Len(e.name) > c.max_filename_length
    THEN Return(x, Rejected("Format", "Filename too long"))
    ELSE [x EXCEPT !.pc = "ratio"]

\* The ratio taken by integer division.
RatioCheckTruncating(x, e, c) ==
    IF e.compressed_size > 0
       /\ e.size \div e.compressed_size > c.max_compression_ratio
    THEN Return(x, Rejected("Format", "Suspicious compression ratio"))
    ELSE [x EXCEPT !.pc = "declared"]

\* Lines 56-63.
RatioCheck(x, e, c) ==
    IF e.compressed_size > 0
       /\ RatioExceeds(e.size, e.compressed_size, c.max_compression_ratio)
    THEN Return(x, Rejected("Format", "Suspicious compression ratio"))
    ELSE [x EXCEPT !.pc = "declared"]

\* The size test made only where the ratio test is made.
DeclaredCheckWhenCompressed(x, e, c) ==
    IF e.compressed_size > 0 /\ e.size > c.max_decompressed_size
    THEN Return(x, Rejected("FileTooLarge", "Total decompressed size too large"))
    ELSE [x EXCEPT !.pc = "read"]

\* Lines 64-66.
DeclaredCheck(x, e, c) ==
    IF e.size > c.max_decompressed_size
    THEN Return(x, Rejected("FileTooLarge", "Total decompressed size too large"))
    ELSE [x EXCEPT !.pc = "read"]

\* An entry whose content is blank is refused, as handle_zip does.
ReadToStringRefusingBlank(x, e) ==
    IF IsUtf8(e.data) /\ Trim(e.data) # << >>
    THEN [x EXCEPT !.pc = "entry", !.index = @ + 1,
                   !.extracted = Append(@, e.data),
                   !.reads = Append(@, x.index)]
    ELSE Return([x EXCEPT !.reads = Append(@, x.index)],
                Rejected("Parse", "Empty file"))

\* Lines 67-69: `reads` lists the entries read_to_string was called on.
ReadToString(x, e) ==
    IF IsUtf8(e.data)
    THEN [x EXCEPT !.pc = "entry", !.index = @ + 1,
                   !.extracted = Append(@, e.data),
                   !.reads = Append(@, x.index)]
    ELSE Return([x EXCEPT !.reads = Append(@, x.index)],
                Rejected("Io", "stream did not contain valid UTF-8"))

\* A stream whose content is blank is refused, as handle_gzip does.
GunzipRefusingBlank(x, f, c) ==
    IF f.gz = << >> \/ ~IsUtf8(f.gz[1])
    THEN Return([x EXCEPT !.reads = <<0>>], Rejected("Io", "gzip"))
    ELSE IF Len(f.gz[1]) > c.max_decompressed_size
    THEN Return([x EXCEPT !.reads = <<0>>],
                Rejected("FileTooLarge", "Decompressed size too large"))
    ELSE IF Trim(f.gz[1]) = << >>
    THEN Return([x EXCEPT !.reads = <<0>>], Rejected("Parse", "Empty file"))
    ELSE Return([x EXCEPT !.reads = <<0>>], Extracted(<<f.gz[1]>>))

\* Lines 73-81.
Gunzip(x, f, c) ==
    IF f.gz = << >> \/ ~IsUtf8(f.gz[1])
    THEN Return([x EXCEPT !.reads = <<0>>], Rejected("Io", "gzip"))
    ELSE IF Len(f.gz[1]) > c.max_decompressed_size
    THEN Return([x EXCEPT !.reads = <<0>>],
                Rejected("FileTooLarge", "Decompressed size too large"))
    ELSE Return([x EXCEPT !.reads = <<0>>], Extracted(<<f.gz[1]>>))

\* Lines 82-90.
ReadXml(x, f, c) ==
    IF ~IsUtf8(f.raw)
    THEN Return([x EXCEPT !.reads = <<0>>],
                Rejected("Io", "stream did not contain valid UTF-8"))
    ELSE IF Len(f.raw) > c.max_file_size
    THEN Return([x EXCEPT !.reads = <<0>>],
                Rejected("FileTooLarge", "XML file size too large"))
    ELSE Return([x EXCEPT !.reads = <<0>>], Extracted(<<f.raw>>))

\* The entry the loop is at.
EntryAt(x, f) == f.zip[1][x.index + 1]

\* One step of extract_zip.
ExtractStep(x, f, c) ==
    CASE x.pc = "size" -> CheckSize(x, f, c)
      [] x.pc = "classify" -> Classify(x, f)
      [] x.pc = "archive" -> OpenZip(x, f, c)
      [] x.pc = "entry" -> ByIndex(x, f.zip[1])
      [] x.pc = "name" -> NameCheck(x, EntryAt(x, f))
      [] x.pc = "length" -> LengthCheck(x, EntryAt(x, f), c)
      [] x.pc = "ratio" -> RatioCheck(x, EntryAt(x, f), c)
      [] x.pc = "declared" -> DeclaredCheck(x, EntryAt(x, f), c)
      [] x.pc = "read" -> ReadToString(x, EntryAt(x, f))
      [] x.pc = "gz" -> Gunzip(x, f, c)
      [] x.pc = "xml" -> ReadXml(x, f, c)

RECURSIVE ExtractToEnd(_, _, _)
ExtractToEnd(x, f, c) ==
    IF x.pc = "done" THEN x.result[1]
    ELSE ExtractToEnd(ExtractStep(x, f, c), f, c)

\* extract_zip(file_path, config)
extract_zip(f, c) == ExtractToEnd(NewExtraction, f, c)

----------------------------------------------------------------------------
(* file_handlers.rs: FileHandler::process_file *)

\* if contents.trim().is_empty()
IsBlank(bytes) == Trim(bytes) = << >>

\* The loop of handle_zip, lines 57-69.
RECURSIVE HandleEntries(_, _, _, _)
HandleEntry(e, entries, i, c, acc) ==
    IF ~e.opens THEN Rejected("Zip", "by_index")
    ELSE IF e.size > c.max_file_size
    THEN Rejected("FileTooLarge", "File in ZIP too large")
    ELSE IF ~IsUtf8(e.data)
    THEN Rejected("Io", "stream did not contain valid UTF-8")
    ELSE IF IsBlank(e.data) THEN Rejected("Parse", "Empty file")
    ELSE HandleEntries(entries, i + 1, c, Append(acc, e.data))

HandleEntries(entries, i, c, acc) ==
    IF i > Len(entries)
    THEN IF acc = << >> THEN Rejected("Parse", "No valid files found in ZIP")
         ELSE Extracted(acc)
    ELSE HandleEntry(entries[i], entries, i, c, acc)

\* FileHandler::handle_zip
handle_zip(f, c) ==
    IF f.zip = << >> THEN Rejected("Zip", "invalid Zip archive")
    ELSE HandleEntries(f.zip[1], 1, c, << >>)

\* The bytes returned whatever they are, as extract_zip does.
CheckContentsAcceptingBlank(bytes, c, msg) ==
    IF Len(bytes) > c.max_file_size THEN Rejected("FileTooLarge", msg)
    ELSE Extracted(<<bytes>>)

\* Lines 80-90 and 97-104, on the bytes read.
CheckContents(bytes, c, msg) ==
    IF Len(bytes) > c.max_file_size THEN Rejected("FileTooLarge", msg)
    ELSE IF IsBlank(bytes) THEN Rejected("Parse", "Empty file")
    ELSE Extracted(<<bytes>>)

\* FileHandler::handle_gzip
handle_gzip(f, c) ==
    IF f.gz = << >> \/ ~IsUtf8(f.gz[1]) THEN Rejected("Io", "gzip")
    ELSE CheckContents(f.gz[1], c, "Decompressed GZ size exceeds limit")

\* FileHandler::handle_xml
handle_xml(f, c) ==
    IF ~IsUtf8(f.raw) THEN Rejected("Io", "stream did not contain valid UTF-8")
    ELSE CheckContents(f.raw, c, "XML file size too large")

\* Lines 36-47: match path.extension().and_then(..).map(|s| s.to_lowercase())
Dispatch(f, c, ext) ==
    IF ext = << >> THEN Rejected("UnsupportedFile", "No file extension")
    ELSE CASE ToLower(ext[1]) = W_zip -> handle_zip(f, c)
           [] ToLower(ext[1]) = W_gz -> handle_gzip(f, c)
           [] ToLower(ext[1]) = W_xml -> handle_xml(f, c)
           [] OTHER -> Rejected("UnsupportedFile", "Unsupported file extension")

\* FileHandler::process_file, for a file that exists.
process_file(f, c) ==
    IF FileSize(f) > c.max_file_size
    THEN Rejected("FileTooLarge", "File size exceeds limit")
    ELSE Dispatch(f, c, PathExtension(f.name))

\* process_file before its first statement, and after its return.
NewHandling == [pc |-> "start", result |-> << >>]
NotHandled == [pc |-> "idle", result |-> << >>]
Handled(r) == [pc |-> "done", result |-> <<r>>]

\* Config::new, WebhookHandler::send, GeoLookup and the worker when they
\* are not called.
NotLoaded == [pc |-> "idle", env |-> << >>, result |-> << >>]
NotSending ==
    [pc |-> "idle", max_retries |-> 0, retry |-> 0, attempts |-> << >>,
     slept |-> << >>, last_error |-> << >>, result |-> << >>]
NoLookups ==
    [pc |-> "idle", cache |-> << >>, callers |-> << >>, requests |-> << >>,
     stored |-> << >>]
NotWorking ==
    [pc |-> "idle", queue |-> << >>, received |-> << >>, delivery |-> << >>,
     task_msg |-> << >>, file_content |-> << >>, records |-> << >>, index |-> 0,
     db |-> << >>, published |-> << >>, acked |-> << >>, log |-> << >>,
     exit |-> << >>]

ServicesIdle ==
    /\ settings = NotLoaded
    /\ webhook = NotSending
    /\ geo = NoLookups
    /\ worker = NotWorking

\* main before it is run: no locals, nothing printed, nothing sent.
NotRun ==
    [pc |-> "idle", extracted |-> << >>, extracted_files |-> << >>, index |-> 0,
     results |-> << >>, policy_info |-> << >>, output |-> "none",
     webhook_url |-> << >>, rendered |-> << >>, sent |-> << >>, exit |-> << >>]

----------------------------------------------------------------------------
(* Files and limits *)

\* The limits of the calls: file size, decompressed size, entries, ratio,
\* name length.
Configs == {Limits(3, 4, 2, 2, 3)}

\* How many entries an archive has, and how many bytes a text file.
MaxEntries == 3
MaxBytes == 4

FileNames ==
    {<<"r", ".", "z", "i", "p">>, <<"r", ".", "Z", "I", "P">>,
     <<"r", ".", "Z", "i", "p">>, <<"z", "i", "p">>, <<".", "z", "i", "p">>,
     <<"r", ".", "g", "z">>, <<"r", ".", "G", "z">>, <<"g", "z">>,
     <<"r", ".", "x", "m", "l", ".", "g", "z">>,
     <<"r", ".", "x", "m", "l">>, <<"r", ".", "X", "M", "L">>,
     <<"x", "m", "l">>, <<".", "x", "m", "l">>,
     <<"r", ".", "t", "x", "t">>, <<"r">>, <<"r", ".">>,
     <<"r", ".", "z", "i", "p", ".", "b", "a", "k">>,
     <<"r", ".", "z", "i", "p", "x">>}

ZipName == <<"r", ".", "z", "i", "p">>

EntryNames ==
    {<<"a">>, <<"a", ".", "b">>, <<"a", "/", "b">>, <<"a", "b", "c", "d">>,
     <<".", ".">>, <<".", ".", "/", "a">>, <<"a", ".", ".">>,
     <<"/", "a">>, <<"\\", "a">>, <<"/", "a", "b", "c">>}

\* Compressed and uncompressed size as an entry's header declares them.
EntrySizes ==
    {<<1, 1>>, <<1, 2>>, <<1, 3>>, <<2, 4>>, <<2, 5>>, <<3, 5>>,
     <<0, 0>>, <<0, 4>>, <<0, 5>>}

\* `n` bytes of text, of white space, and with a byte that is no text.
TextOf(n) == Repeat(<<"a">>, n)
BlankOf(n) == Repeat(<<" ">>, n)
BinaryOf(n) == Repeat(<<"a">>, n) \o <<InvalidByte>>

\* Every kind of entry, for archives of one entry.
EntriesOf(name, compressed, size) ==
    {ZipEntry(name, compressed, size, d, o) :
        d \in {TextOf(size), BlankOf(size), BinaryOf(size)}, o \in BOOLEAN}

AllEntries ==
    UNION {EntriesOf(n, s[1], s[2]) : n \in EntryNames, s \in EntrySizes}

\* A few entries, for archives of several.
SomeEntries ==
    {ZipEntry(<<"a">>, 1, 1, TextOf(1), TRUE),
     ZipEntry(<<"b">>, 2, 4, TextOf(4), TRUE),
     ZipEntry(<<".", ".", "/", "a">>, 1, 1, TextOf(1), TRUE),
     ZipEntry(<<"c">>, 1, 3, TextOf(3), TRUE),
     ZipEntry(<<"d">>, 0, 5, TextOf(5), TRUE),
     ZipEntry(<<"e">>, 1, 1, BlankOf(1), TRUE),
     ZipEntry(<<"a", "b", "c", "d">>, 3, 5, BinaryOf(1), TRUE)}

Archives == {<<e>> : e \in AllEntries} \cup SeqsUpTo(SomeEntries, MaxEntries)

\* What a file holds, whatever its name.
SomeContents(name) ==
    {ZipFile(name, n, es) :
        n \in {1, 3, 4},
        es \in {<< >>, <<ZipEntry(<<"a">>, 1, 1, TextOf(1), TRUE)>>,
                <<ZipEntry(<<".", ".">>, 1, 3, TextOf(3), TRUE)>>}}
    \cup {GzFile(name, n, d) :
            n \in {1, 3, 4},
            d \in {TextOf(0), TextOf(1), TextOf(4), TextOf(5), BlankOf(2),
                   BinaryOf(1)}}
    \cup {TextFile(name, d) :
            d \in {TextOf(n) : n \in 0..MaxBytes} \cup {BlankOf(2), BinaryOf(1)}}

\* A name of `n` bytes.
NameOfLength(n) == Repeat(<<"a">>, n)

\* Files at the limits of Configs and one beyond: `raw` the size of the
\* file, `count` its entries, `len` the length of the first entry's name,
\* `compressed` and `size` what the first entry declares.
LimitArchive(raw, count, len, compressed, size) ==
    ZipFile(ZipName, raw,
            <<ZipEntry(NameOfLength(len), compressed, size, TextOf(size), TRUE)>>
            \o Repeat(<<ZipEntry(<<"b">>, 1, 1, TextOf(1), TRUE)>>, count - 1))

AtLimits == LimitArchive(3, 2, 3, 2, 4)

LimitFiles ==
    {AtLimits,
     LimitArchive(4, 2, 3, 2, 4), LimitArchive(3, 3, 3, 2, 4),
     LimitArchive(3, 2, 4, 2, 4), LimitArchive(3, 2, 3, 1, 3),
     LimitArchive(3, 2, 3, 3, 5),
     GzFile(<<"r", ".", "g", "z">>, 3, TextOf(4)),
     GzFile(<<"r", ".", "g", "z">>, 3, TextOf(5))}

Files ==
    UNION {SomeContents(name) : name \in FileNames}
    \cup {ZipFile(ZipName, 1, es) : es \in Archives}
    \cup LimitFiles

----------------------------------------------------------------------------
(* The state machine: one call of parse_dmarc_xml *)

State ==
    [xml_content |-> xml_content, pc |-> pc, reader |-> reader,
     records |-> records, policy |-> policy,
     current_record |-> current_record, depth |-> depth, event |-> event,
     result |-> result]

Becomes(s) ==
    /\ xml_content' = s.xml_content
    /\ pc' = s.pc
    /\ reader' = s.reader
    /\ records' = s.records
    /\ policy' = s.policy
    /\ current_record' = s.current_record
    /\ depth' = s.depth
    /\ event' = s.event
    /\ result' = s.result
    /\ UNCHANGED <<file, config, extraction, handling, calls, main>>
    /\ UNCHANGED services

Init ==
    /\ xml_content \in Documents
    /\ pc = "prepass"
    /\ reader = NoReader
    /\ records = << >>
    /\ policy = InitialPolicy
    /\ current_record = << >>
    /\ depth = 0
    /\ event = NoEvent
    /\ result = << >>
    /\ file = NoFile
    /\ config = NoConfig
    /\ extraction = NotCalled
    /\ handling = NotHandled
    /\ calls = 0
    /\ main = NotRun
    /\ ServicesIdle

\* The event the next reader.read_event() of the main loop returns.
Upcoming == ReadEvent(reader).ev

InLoop == pc = "loop"
AtStart(names) == InLoop /\ Upcoming.type = "Start" /\ Upcoming.name \in names

RejectEntities ==
    /\ pc = "prepass"
    /\ CleanXml(xml_content) = << >>
    /\ Becomes(PrePassStep(State))

BeginMainPass ==
    /\ pc = "prepass"
    /\ CleanXml(xml_content) # << >>
    /\ Becomes(PrePassStep(State))

DepthExceeded ==
    /\ AtStart(ElementNames)
    /\ depth + 1 > max_depth
    /\ Becomes(LoopStep(State))

StartRecord ==
    /\ AtStart({"record"})
    /\ depth + 1 <= max_depth
    /\ Becomes(LoopStep(State))

StartPolicyPublished ==
    /\ AtStart({"policy_published"})
    /\ depth + 1 <= max_depth
    /\ Becomes(LoopStep(State))

StartSourceIp ==
    /\ AtStart({"source_ip"})
    /\ depth + 1 <= max_depth
    /\ Becomes(LoopStep(State))

StartCount ==
    /\ AtStart({"count"})
    /\ depth + 1 <= max_depth
    /\ Becomes(LoopStep(State))

StartHeaderFrom ==
    /\ AtStart({"header_from"})
    /\ depth + 1 <= max_depth
    /\ Becomes(LoopStep(State))

StartDkim ==
    /\ AtStart({"dkim"})
    /\ depth + 1 <= max_depth
    /\ Becomes(LoopStep(State))

StartSpf ==
    /\ AtStart({"spf"})
    /\ depth + 1 <= max_depth
    /\ Becomes(LoopStep(State))

StartOther ==
    /\ AtStart(ElementNames \ {"record", "policy_published", "source_ip",
                                "count", "header_from", "dkim", "spf"})
    /\ depth + 1 <= max_depth
    /\ Becomes(LoopStep(State))

EndRecord ==
    /\ InLoop /\ Upcoming.type = "End" /\ Upcoming.name = "record"
    /\ Becomes(LoopStep(State))

EndOther ==
    /\ InLoop /\ Upcoming.type = "End" /\ Upcoming.name # "record"
    /\ Becomes(LoopStep(State))

EndOfInput ==
    /\ InLoop /\ Upcoming.type = "Eof"
    /\ Becomes(LoopStep(State))

TokenizerError ==
    /\ InLoop /\ Upcoming.type = "Err"
    /\ Becomes(LoopStep(State))

OtherEvent ==
    /\ InLoop /\ Upcoming.type \in {"Text", "Empty", "Decl", "DocType"}
    /\ Becomes(LoopStep(State))

Next ==
    \/ RejectEntities
    \/ BeginMainPass
    \/ DepthExceeded
    \/ StartRecord
    \/ StartPolicyPublished
    \/ StartSourceIp
    \/ StartCount
    \/ StartHeaderFrom
    \/ StartDkim
    \/ StartSpf
    \/ StartOther
    \/ EndRecord
    \/ EndOther
    \/ EndOfInput
    \/ TokenizerError
    \/ OtherEvent

Spec == Init /\ [][Next]_vars

----------------------------------------------------------------------------
(* The state machine: one call of extract_zip and one of process_file on
   the same file *)

\* parse_dmarc_xml is not called.
ParserIdle ==
    /\ xml_content = << >>
    /\ pc = "idle"
    /\ reader = NoReader
    /\ records = << >>
    /\ policy = InitialPolicy
    /\ current_record = << >>
    /\ depth = 0
    /\ event = NoEvent
    /\ result = << >>

ParserUnchanged ==
    UNCHANGED <<xml_content, pc, reader, records, policy, current_record,
                depth, event, result>>

InitFiles ==
    /\ ParserIdle
    /\ file \in Files
    /\ config \in Configs
    /\ extraction = NewExtraction
    /\ handling = NewHandling
    /\ calls = 0
    /\ main = NotRun
    /\ ServicesIdle

\* extract_zip takes its next step.
Extracts ==
    /\ extraction' = ExtractStep(extraction, file, config)
    /\ UNCHANGED <<file, config, handling, calls, main>>
    /\ UNCHANGED services
    /\ ParserUnchanged

CheckFileSize ==
    /\ extraction.pc = "size"
    /\ Extracts

ClassifyExtension ==
    /\ extraction.pc = "classify"
    /\ Extracts

OpenArchive ==
    /\ extraction.pc = "archive"
    /\ Extracts

NextEntry ==
    /\ extraction.pc = "entry"
    /\ Extracts

CheckEntryName ==
    /\ extraction.pc = "name"
    /\ Extracts

CheckNameLength ==
    /\ extraction.pc = "length"
    /\ Extracts

CheckCompressionRatio ==
    /\ extraction.pc = "ratio"
    /\ Extracts

CheckDeclaredSize ==
    /\ extraction.pc = "declared"
    /\ Extracts

ReadEntry ==
    /\ extraction.pc = "read"
    /\ Extracts

ReadGzStream ==
    /\ extraction.pc = "gz"
    /\ Extracts

ReadXmlFile ==
    /\ extraction.pc = "xml"
    /\ Extracts

\* process_file runs from its first statement to its return.
Handles ==
    /\ handling' = Handled(process_file(file, config))
    /\ UNCHANGED <<file, config, extraction, calls, main>>
    /\ UNCHANGED services
    /\ ParserUnchanged

\* The lower-case extension process_file matches on, << >> for None.
HandlerExtension ==
    IF PathExtension(file.name) = << >> THEN << >>
    ELSE ToLower(PathExtension(file.name)[1])

HandlerInLimit == FileSize(file) <= config.max_file_size

HandlerRejectsSize ==
    /\ handling.pc = "start"
    /\ ~HandlerInLimit
    /\ Handles

HandlerRejectsExtension ==
    /\ handling.pc = "start"
    /\ HandlerInLimit
    /\ HandlerExtension \notin {W_zip, W_gz, W_xml}
    /\ Handles

HandlerZip ==
    /\ handling.pc = "start"
    /\ HandlerInLimit
    /\ HandlerExtension = W_zip
    /\ Handles

HandlerGzip ==
    /\ handling.pc = "start"
    /\ HandlerInLimit
    /\ HandlerExtension = W_gz
    /\ Handles

HandlerXml ==
    /\ handling.pc = "start"
    /\ HandlerInLimit
    /\ HandlerExtension = W_xml
    /\ Handles

NextFiles ==
    \/ CheckFileSize
    \/ ClassifyExtension
    \/ OpenArchive
    \/ NextEntry
    \/ CheckEntryName
    \/ CheckNameLength
    \/ CheckCompressionRatio
    \/ CheckDeclaredSize
    \/ ReadEntry
    \/ ReadGzStream
    \/ ReadXmlFile
    \/ HandlerRejectsSize
    \/ HandlerRejectsExtension
    \/ HandlerZip
    \/ HandlerGzip
    \/ HandlerXml

SpecFiles == InitFiles /\ [][NextFiles]_vars

----------------------------------------------------------------------------
(* The state machine: calls of parse_dmarc_xml and of extract_zip, one
   after the other and in between each other's steps *)

\* How many calls are followed by another call.
MaxCalls == 2

CallDocs ==
    {MinimalDoc,
     ReportDoc(Elem("source_ip", <<"1">>) \o Elem("count", <<"2">>)
                 \o Elem("header_from", <<"e">>) \o DkimElem \o SpfElem, 2),
     <<XmlDecl, STag("feedback")>>
       \o Elem("policy_published", Elem("pct", <<"5", "0">>))
       \o <<EmptyTag("row"), ETag("feedback")>>,
     NestDoc(<< >>, 19), NestDoc(<< >>, 21),
     LaughsProlog \o MinimalDoc,
     <<STag("feedback"), ETag("record")>>}

CallFiles ==
    {ZipFile(ZipName, 1, <<ZipEntry(<<"a">>, 1, 1, TextOf(1), TRUE),
                          ZipEntry(<<"b">>, 2, 4, TextOf(4), TRUE)>>),
     ZipFile(ZipName, 1, <<ZipEntry(<<"a">>, 1, 1, TextOf(1), TRUE),
                          ZipEntry(<<".", ".">>, 1, 1, TextOf(1), TRUE)>>),
     ZipFile(ZipName, 4, << >>),
     GzFile(<<"r", ".", "g", "z">>, 1, TextOf(2)),
     TextFile(<<"r", ".", "x", "m", "l">>, TextOf(3)),
     TextFile(<<"r", ".", "t", "x", "t">>, TextOf(1))}

InitCalls ==
    /\ xml_content \in CallDocs
    /\ pc = "prepass"
    /\ reader = NoReader
    /\ records = << >>
    /\ policy = InitialPolicy
    /\ current_record = << >>
    /\ depth = 0
    /\ event = NoEvent
    /\ result = << >>
    /\ file \in CallFiles
    /\ config \in Configs
    /\ extraction = NewExtraction
    /\ handling = NotHandled
    /\ calls = 0
    /\ main = NotRun
    /\ ServicesIdle

\* parse_dmarc_xml is called again: the argument is new, the locals are
\* whatever the earlier call left until the call sets them (lines 51-65).
ParseAgain ==
    /\ pc = "done"
    /\ calls < MaxCalls
    /\ xml_content' \in CallDocs
    /\ pc' = "prepass"
    /\ result' = << >>
    /\ calls' = calls + 1
    /\ UNCHANGED <<reader, records, policy, current_record, depth, event,
                   file, config, extraction, handling, main>>
    /\ UNCHANGED services

\* extract_zip is called again, on another file.
ExtractAgain ==
    /\ extraction.pc = "done"
    /\ calls < MaxCalls
    /\ file' \in CallFiles
    /\ extraction' = [extraction EXCEPT !.pc = "size", !.result = << >>,
                                        !.reads = << >>]
    /\ calls' = calls + 1
    /\ UNCHANGED config
    /\ UNCHANGED handling
    /\ UNCHANGED main
    /\ UNCHANGED services
    /\ ParserUnchanged

NextCalls ==
    \/ RejectEntities
    \/ BeginMainPass
    \/ DepthExceeded
    \/ StartRecord
    \/ StartPolicyPublished
    \/ StartSourceIp
    \/ StartCount
    \/ StartHeaderFrom
    \/ StartDkim
    \/ StartSpf
    \/ StartOther
    \/ EndRecord
    \/ EndOther
    \/ EndOfInput
    \/ TokenizerError
    \/ OtherEvent
    \/ CheckFileSize
    \/ ClassifyExtension
    \/ OpenArchive
    \/ NextEntry
    \/ CheckEntryName
    \/ CheckNameLength
    \/ CheckCompressionRatio
    \/ CheckDeclaredSize
    \/ ReadEntry
    \/ ReadGzStream
    \/ ReadXmlFile
    \/ ParseAgain
    \/ ExtractAgain

SpecCalls == InitCalls /\ [][NextCalls]_vars

----------------------------------------------------------------------------
(* main.rs: main *)

\* anyhow's .context(text): the error, with the text in front of it.
Context(text, e) == [context |-> text, cause |-> e]

\* Result<()>: what main returns.
ExitOk == [ok |-> TRUE, error |-> Context("", Err("", ""))]
ExitErr(text, e) == [ok |-> FALSE, error |-> Context(text, e)]

Exit(m, r) == [m EXCEPT !.pc = "exit", !.exit = <<r>>]

\* Lines 116-120: let extracted_files = extract_zip(..).context(..)?, and
\* the two locals of the loop.
AfterExtract(m, r) ==
    IF r.ok
    THEN [m EXCEPT !.pc = "loop", !.extracted_files = r.value, !.index = 1,
                   !.results = << >>, !.policy_info = << >>]
    ELSE Exit(m, ExitErr("Failed to extract file", r.err))

\* A failed payload is passed over and the loop goes on.
MergeSkippingFailed(m, r) ==
    IF r.ok
    THEN [m EXCEPT !.results = @ \o r.value[1].records,
                   !.policy_info = <<r.value[1].policy>>,
                   !.index = @ + 1]
    ELSE [m EXCEPT !.index = @ + 1]

\* Lines 122-127, one turn of `for xml in &extracted_files`:
\* parse_dmarc_xml(xml).context(..)?, results.extend(records),
\* policy_info = Some(policy).
Merge(m, r) ==
    IF r.ok
    THEN [m EXCEPT !.results = @ \o r.value[1].records,
                   !.policy_info = <<r.value[1].policy>>,
                   !.index = @ + 1]
    ELSE Exit(m, ExitErr("Failed to parse DMARC XML", r.err))

\* What the match on cli.output prints (the banner of lines 106-110 is
\* printed before anything is read and is left out).
Printed(m, lines) == [m EXCEPT !.pc = "webhook", !.rendered = lines]

\* Lines 130-132.
PrintJson(m) == Printed(m, <<[what |-> "json", of |-> m.results]>>)

\* Lines 133-139: wtr.serialize(record)? for every record, then flush.  The
\* csv crate decides whether a record serializes; with no record nothing is
\* serialized.
PrintCsv(m, serializes) ==
    IF m.results = << >> \/ serializes
    THEN Printed(m, <<[what |-> "csv", of |-> m.results]>>)
    ELSE Exit(m, ExitErr("", Err("Csv", "serialize")))

\* Lines 141-149: the policy, when there is one.
PolicyLines(m) ==
    IF m.policy_info = << >> THEN << >>
    ELSE <<[what |-> "policy", of |-> m.policy_info]>>

\* Lines 151-178: the table of the records, or the line that says there is
\* none.
RecordLines(m) ==
    IF m.results # << >> THEN <<[what |-> "table", of |-> m.results]>>
    ELSE <<[what |-> "No DMARC records found.", of |-> << >>]>>

PrintTable(m) == Printed(m, PolicyLines(m) \o RecordLines(m))

\* Lines 182-185 and send_webhook (191-200): the results are posted when a
\* URL is configured; the network decides whether the request is delivered.
SendWebhook(m, delivered) ==
    IF delivered
    THEN Exit([m EXCEPT !.sent = <<[url |-> m.webhook_url[1], body |-> m.results]>>],
              ExitOk)
    ELSE Exit(m, ExitErr("Failed to send webhook", Err("Reqwest", "send")))

----------------------------------------------------------------------------
(* A run of main over an archive of reports *)

\* How many payloads an archive holds.
MaxPayloads == 3

\* Two reports that parse, with different records and different policies,
\* and two that do not parse.
PayloadDocs ==
    {<<STag("feedback")>>
       \o Elem("policy_published", Elem("domain", DomainText) \o Elem("p", W_reject))
       \o RecordOf(<<"1">>, << >>) \o <<ETag("feedback")>>,
     <<STag("feedback")>> \o RecordOf(<<"2">>, DkimElem)
       \o RecordOf(<<"3">>, << >>) \o <<ETag("feedback")>>,
     LaughsProlog \o MinimalDoc,
     <<STag("feedback"), ETag("record")>>}

PayloadEntry(d) == ZipEntry(<<"a">>, Len(d), Len(d), d, TRUE)

MainFiles ==
    {ZipFile(ZipName, 1, [i \in DOMAIN ds |-> PayloadEntry(ds[i])]) :
        ds \in SeqsUpTo(PayloadDocs, MaxPayloads)}
    \cup {TextFile(<<"r", ".", "t", "x", "t">>, TextOf(1))}

MainConfig == Limits(100, 1000, 10, 10, 10)

OutputFormats == {"Json", "Csv", "Table"}
WebhookUrls == {<< >>, <<"url">>}

MainFrame ==
    /\ ParserUnchanged
    /\ UNCHANGED <<file, config, extraction, handling, calls>>
    /\ UNCHANGED services

InitMain ==
    /\ ParserIdle
    /\ file \in MainFiles
    /\ config = MainConfig
    /\ extraction = NotCalled
    /\ handling = NotHandled
    /\ calls = 0
    /\ main \in {[NotRun EXCEPT !.pc = "extract", !.output = o, !.webhook_url = u] :
                    o \in OutputFormats, u \in WebhookUrls}
    /\ ServicesIdle

MainExtracts ==
    /\ main.pc = "extract"
    /\ main' = AfterExtract(main, extract_zip(file, config))
    /\ MainFrame

MainParses ==
    /\ main.pc = "loop"
    /\ main.index <= Len(main.extracted_files)
    /\ main' = Merge(main, parse_dmarc_xml(main.extracted_files[main.index]))
    /\ MainFrame

MainLoopEnds ==
    /\ main.pc = "loop"
    /\ main.index > Len(main.extracted_files)
    /\ main' = [main EXCEPT !.pc = "render"]
    /\ MainFrame

MainPrintsJson ==
    /\ main.pc = "render"
    /\ main.output = "Json"
    /\ main' = PrintJson(main)
    /\ MainFrame

MainPrintsCsv ==
    /\ main.pc = "render"
    /\ main.output = "Csv"
    /\ \E serializes \in BOOLEAN : main' = PrintCsv(main, serializes)
    /\ MainFrame

MainPrintsTable ==
    /\ main.pc = "render"
    /\ main.output = "Table"
    /\ main' = PrintTable(main)
    /\ MainFrame

MainSkipsWebhook ==
    /\ main.pc = "webhook"
    /\ main.webhook_url = << >>
    /\ main' = Exit(main, ExitOk)
    /\ MainFrame

MainSendsWebhook ==
    /\ main.pc = "webhook"
    /\ main.webhook_url # << >>
    /\ \E delivered \in BOOLEAN : main' = SendWebhook(main, delivered)
    /\ MainFrame

NextMain ==
    \/ MainExtracts
    \/ MainParses
    \/ MainLoopEnds
    \/ MainPrintsJson
    \/ MainPrintsCsv
    \/ MainPrintsTable
    \/ MainSkipsWebhook
    \/ MainSendsWebhook

SpecMain == InitMain /\ [][NextMain]_vars

----------------------------------------------------------------------------
(* config.rs: Config::new *)

\* The decimal digits of usize::MAX and u64::MAX on a 64-bit target.
UsizeMaxDigits == <<"1", "8", "4", "4", "6", "7", "4", "4", "0", "7", "3", "7", "0", "9", "5", "5", "1", "6", "1", "5">>

WordMax == DigitsExact(WordMaxDigits, 0)

\* str::parse::<usize>() and ::<u64>(): << >> is Err, <<v>> is Ok(v).  A
\* value above WordMax, the largest number the model's integers hold,
\* is stood for by WordMax.
ParseUsize(s) ==
    LET body == IF StartsWith(s, "+") THEN Tail(s) ELSE s IN
    IF body = << >> \/ \E i \in 1..Len(body) : body[i] \notin Digits
    THEN << >>
    ELSE LET d == StripZeros(body) IN
         IF Len(d) > Len(UsizeMaxDigits)
            \/ (Len(d) = Len(UsizeMaxDigits) /\ ~DigitsLeq(d, UsizeMaxDigits))
         THEN << >>
         ELSE IF Len(d) > Len(WordMaxDigits)
                 \/ (Len(d) = Len(WordMaxDigits) /\ ~DigitsLeq(d, WordMaxDigits))
         THEN <<WordMax>>
         ELSE <<DigitsExact(d, 0)>>

\* The digits of a fraction without its trailing zeros.
RECURSIVE StripTrailingZeros(_)
StripTrailingZeros(d) ==
    IF d # << >> /\ d[Len(d)] = "0" THEN StripTrailingZeros(SubSeq(d, 1, Len(d) - 1))
    ELSE d

AllDigits(s) == \A i \in 1..Len(s) : s[i] \in Digits

\* The place of the "." of a decimal, 0 when it has none.
PointOf(s) == IF \E i \in 1..Len(s) : s[i] = "." THEN CHOOSE i \in 1..Len(s) : s[i] = "." ELSE 0

\* A number written as digits and digits "." digits: its whole part and the
\* digits of its fraction.
Decimal(whole, frac) == [whole |-> whole, frac |-> frac]

DecimalOf(s, point) ==
    IF point = 0
    THEN (IF s # << >> /\ AllDigits(s) THEN <<Decimal(DigitsExact(s, 0), << >>)>> ELSE << >>)
    ELSE IF AllDigits(SubSeq(s, 1, point - 1)) /\ AllDigits(From(s, point + 1)) /\ Len(s) > 1
    THEN <<Decimal(DigitsExact(SubSeq(s, 1, point - 1), 0),
                   StripTrailingZeros(From(s, point + 1)))>>
    ELSE << >>

\* str::parse::<f64>() of a text in decimal notation (no sign, exponent,
\* "inf" or "nan"): << >> is Err.
ParseF64(s) == DecimalOf(s, PointOf(s))

\* env::var(NAME).ok().and_then(|s| s.parse().ok()).unwrap_or(default):
\* `v` is << >> when the variable is not set (or is not Unicode).
UsizeVar(v, default) ==
    IF v = << >> THEN default ELSE UnwrapOr(ParseUsize(v[1]), default)

F64Var(v, default) ==
    IF v = << >> THEN default ELSE UnwrapOr(ParseF64(v[1]), default)

\* Lines 38-39: env::var(..SECS).or_else(|_| env::var(..TIMEOUT)).
OrElse(first, second) == IF first # << >> THEN first ELSE second

\* The timeout read from DMARC_WEBHOOK_TIMEOUT_SECS alone.
WebhookTimeoutFromSecs(env) == UsizeVar(env.DMARC_WEBHOOK_TIMEOUT_SECS, 30)

\* Lines 37-42.
WebhookTimeout(env) ==
    UsizeVar(OrElse(env.DMARC_WEBHOOK_TIMEOUT_SECS, env.DMARC_WEBHOOK_TIMEOUT), 30)

\* Lines 63-67: the URL trimmed, None when it is not set or blank.
WebhookUrl(v) ==
    IF v = << >> THEN << >>
    ELSE IF Trim(v[1]) = << >> THEN << >>
    ELSE <<Trim(v[1])>>

MiB == 1024 * 1024

\* Lines 27-30.
MaxFileSize(env) == UsizeVar(env.DMARC_MAX_FILE_SIZE, 10 * MiB)

\* Result<Config>
Loaded(c) == [ok |-> TRUE, value |-> <<c>>, err |-> Err("", "")]
NotLoadable(msg) == [ok |-> FALSE, value |-> << >>, err |-> Err("Anyhow", msg)]

\* Lines 44-61 and 69-77.
BuildConfig(env) ==
    [webhook_url |-> WebhookUrl(env.DMARC_WEBHOOK_URL),
     webhook_timeout |-> WebhookTimeout(env),
     max_file_size |-> MaxFileSize(env),
     max_decompressed_size |-> UsizeVar(env.DMARC_MAX_DECOMPRESSED_SIZE, 100 * MiB),
     max_files_in_zip |-> UsizeVar(env.DMARC_MAX_FILES_IN_ZIP, 1000),
     max_compression_ratio |-> F64Var(env.DMARC_MAX_COMPRESSION_RATIO, Decimal(1000, << >>)),
     max_filename_length |-> UsizeVar(env.DMARC_MAX_FILENAME_LENGTH, 256)]

\* A limit of 500,000,000 or more is refused.
TooLargeAtLimit(env) == MaxFileSize(env) >= 500000000

\* Lines 32-34.
TooLarge(env) == MaxFileSize(env) > 500000000

\* Config::new()
ConfigNew(env) ==
    IF TooLarge(env) THEN NotLoadable("Max file size too large (500MB limit)")
    ELSE Loaded(BuildConfig(env))

----------------------------------------------------------------------------
(* Calls of Config::new *)

\* A text a variable is set to, and the number it spells: << >> when it
\* spells none.
EnvText(text, value) == [text |-> text, value |-> value]

SizeTexts ==
    {EnvText(<<"5", "2", "4", "2", "8", "8", "0">>, <<5242880>>),
     EnvText(<<"5", "0", "0", "0", "0", "0", "0", "0", "0">>, <<500000000>>),
     EnvText(<<"5", "0", "0", "0", "0", "0", "0", "0", "1">>, <<500000001>>),
     EnvText(<<"3", "0", "0", "0", "0", "0", "0", "0", "0", "0">>, <<WordMax>>),
     EnvText(<<"9", "9", "9", "9", "9", "9", "9", "9", "9", "9", "9", "9", "9", "9", "9", "9", "9", "9", "9", "9", "9", "9", "9">>, << >>),
     EnvText(<<"+", "7">>, <<7>>),
     EnvText(<<" ", "5">>, << >>),
     EnvText(<<"a", "b", "c">>, << >>),
     EnvText(<< >>, << >>)}

TimeoutTexts ==
    {EnvText(<<"6", "0">>, <<60>>), EnvText(<<"4", "5">>, <<45>>),
     EnvText(<<"6", "0", "s">>, << >>)}

CountTextsOfEnv ==
    {EnvText(<<"5", "0", "0">>, <<500>>), EnvText(<<"-", "1">>, << >>)}

RatioTexts ==
    {EnvText(<<"5", "0", "0", ".", "0">>, <<Decimal(500, << >>)>>),
     EnvText(<<"2", ".", "5">>, <<Decimal(2, <<"5">>)>>),
     EnvText(<<"a", "b", "c">>, << >>)}

UrlTexts ==
    {EnvText(<<"u">>, <<"u">>), EnvText(<<" ", "u", " ">>, <<"u">>),
     EnvText(<<" ">>, << >>), EnvText(<< >>, << >>)}

\* What env::var gives for a variable: not set, or one of the texts.
Settings(texts) == {<< >>} \cup {<<x.text>> : x \in texts}

Environments ==
    [DMARC_MAX_FILE_SIZE : Settings(SizeTexts),
     DMARC_WEBHOOK_TIMEOUT_SECS : Settings(TimeoutTexts),
     DMARC_WEBHOOK_TIMEOUT : Settings(TimeoutTexts),
     DMARC_MAX_DECOMPRESSED_SIZE : Settings(CountTextsOfEnv),
     DMARC_MAX_FILES_IN_ZIP : Settings(CountTextsOfEnv),
     DMARC_MAX_COMPRESSION_RATIO : Settings(RatioTexts),
     DMARC_MAX_FILENAME_LENGTH : Settings(CountTextsOfEnv),
     DMARC_WEBHOOK_URL : Settings(UrlTexts)]

\* The parser, the extractors and main are not called.
CoreIdle ==
    /\ ParserIdle
    /\ file = NoFile
    /\ config = NoConfig
    /\ extraction = NotCalled
    /\ handling = NotHandled
    /\ calls = 0
    /\ main = NotRun

CoreUnchanged ==
    /\ ParserUnchanged
    /\ UNCHANGED <<file, config, extraction, handling, calls, main>>

InitConfig ==
    /\ CoreIdle
    /\ settings \in {[pc |-> "start", env |-> e, result |-> << >>] : e \in Environments}
    /\ webhook = NotSending
    /\ geo = NoLookups
    /\ worker = NotWorking

ConfigReturns ==
    /\ settings' = [settings EXCEPT !.pc = "done", !.result = <<ConfigNew(settings.env)>>]
    /\ CoreUnchanged
    /\ UNCHANGED <<webhook, geo, worker>>

\* return Err(anyhow!("Max file size too large (500MB limit)"))
RefuseFileSize ==
    /\ settings.pc = "start"
    /\ TooLarge(settings.env)
    /\ ConfigReturns

\* Ok(Config { .. })
LoadConfig ==
    /\ settings.pc = "start"
    /\ ~TooLarge(settings.env)
    /\ ConfigReturns

NextConfig ==
    \/ RefuseFileSize
    \/ LoadConfig

SpecConfig == InitConfig /\ [][NextConfig]_vars

----------------------------------------------------------------------------
(* webhook.rs: WebhookHandler::send *)

\* Result<()>: Ok(()), or the error of line 89 with the number and the
\* cause it is formatted with.
Sent == [ok |-> TRUE, msg |-> "", attempts |-> 0, last_error |-> << >>]
SendFailed(n, cause) ==
    [ok |-> FALSE, msg |-> "Webhook failed after {} attempts: {:?}", attempts |-> n,
     last_error |-> cause]

\* What one POST comes to: a response with a success status, a response
\* with another status (and its body, when it can be read), a timeout, or
\* another error of the client.
Response(status, body) == [kind |-> "response", status |-> status, body |-> body]
TimedOut == [kind |-> "timeout", status |-> 0, body |-> ""]
ClientError(text) == [kind |-> "error", status |-> 0, body |-> text]

\* response.status().is_success()
IsSuccess(o) == o.kind = "response" /\ o.status \in 200..299

\* Lines 73-76 and 81-85: what last_error is set to.
CauseOf(o) ==
    CASE o.kind = "response" -> <<"HTTP", o.status, o.body>>
      [] o.kind = "timeout" -> <<"timeout">>
      [] OTHER -> <<o.body>>

\* A loop over 0..max_retries, which leaves the last retry out.
LoopHeadExclusive(w) ==
    IF w.retry >= w.max_retries
    THEN [w EXCEPT !.pc = "done",
                   !.result = <<SendFailed(w.max_retries + 1, w.last_error)>>]
    ELSE IF w.retry > 0 THEN [w EXCEPT !.pc = "sleep"]
    ELSE [w EXCEPT !.pc = "post"]



\* Lines 54-55 and 89: `for retry in 0..=self.max_retries`, the test of
\* `retry > 0`, and the error returned when the range is used up.
LoopHead(w) ==
    IF w.retry > w.max_retries
    THEN [w EXCEPT !.pc = "done",
                   !.result = <<SendFailed(w.max_retries + 1, w.last_error)>>]
    ELSE IF w.retry > 0 THEN [w EXCEPT !.pc = "sleep"]
    ELSE [w EXCEPT !.pc = "post"]

\* Lines 47-53: send before its first attempt.
BeginSend(max_retries) ==
    LoopHead([pc |-> "loop", max_retries |-> max_retries, retry |-> 0,
              attempts |-> << >>, slept |-> << >>, last_error |-> << >>,
              result |-> << >>])

\* Lines 56-58: sleep(Duration::from_secs(2u64.pow(retry - 1))).await
Sleep(w) == [w EXCEPT !.pc = "post", !.slept = Append(@, 2 ^ (w.retry - 1))]

\* Lines 60-87: one POST and the match on what it came to.
Post(w, o) ==
    IF IsSuccess(o)
    THEN [w EXCEPT !.pc = "done", !.attempts = Append(@, o), !.result = <<Sent>>]
    ELSE LoopHead([w EXCEPT !.attempts = Append(@, o),
                            !.last_error = <<CauseOf(o)>>,
                            !.retry = @ + 1])

----------------------------------------------------------------------------
(* A call of WebhookHandler::send *)

\* The largest max_retries a handler is made with.
MaxRetries == 3

Statuses == {200, 204, 404, 500}
Bodies == {"body", "Unable to read response body"}

InitWebhook ==
    /\ CoreIdle
    /\ settings = NotLoaded
    /\ webhook \in {BeginSend(n) : n \in 0..MaxRetries}
    /\ geo = NoLookups
    /\ worker = NotWorking

WebhookFrame ==
    /\ CoreUnchanged
    /\ UNCHANGED <<settings, geo, worker>>

WebhookSleeps ==
    /\ webhook.pc = "sleep"
    /\ webhook' = Sleep(webhook)
    /\ WebhookFrame

PostAnswered ==
    /\ webhook.pc = "post"
    /\ \E s \in Statuses, b \in Bodies : webhook' = Post(webhook, Response(s, b))
    /\ WebhookFrame

PostTimesOut ==
    /\ webhook.pc = "post"
    /\ webhook' = Post(webhook, TimedOut)
    /\ WebhookFrame

PostFails ==
    /\ webhook.pc = "post"
    /\ webhook' = Post(webhook, ClientError("connect"))
    /\ WebhookFrame

NextWebhook ==
    \/ WebhookSleeps
    \/ PostAnswered
    \/ PostTimesOut
    \/ PostFails

SpecWebhook == InitWebhook /\ [][NextWebhook]_vars

----------------------------------------------------------------------------
(* geo.rs: GeoLookup and IP_CACHE *)

\* What Locator::get answers: a location, its coordinates as texts.
Location(country, city, latitude, longitude) ==
    [country |-> country, city |-> city, latitude |-> latitude, longitude |-> longitude]

\* Lines 28-35: the IpGeoInfo made of a location.
GeoInfoOf(l) ==
    [country |-> l.country, city |-> <<l.city>>,
     latitude |-> UnwrapOr(ParseF64(l.latitude), Decimal(0, << >>)),
     longitude |-> UnwrapOr(ParseF64(l.longitude), Decimal(0, << >>)),
     asn |-> << >>, organization |-> << >>]

\* Result<IpGeoInfo>
Found(info) == [ok |-> TRUE, value |-> <<info>>, err |-> Err("", "")]
LookupFailed(text) == [ok |-> FALSE, value |-> << >>, err |-> Err("Geolocation", text)]

\* HashMap::new(), HashMap::insert, HashMap::len
EmptyMap == [ip \in {} |-> 0]
MapInsert(m, k, v) == [x \in DOMAIN m \cup {k} |-> IF x = k THEN v ELSE m[x]]
MapLen(m) == Cardinality(DOMAIN m)

\* A caller between two calls, and the return of a call.
CallReturned(c, op, ip, r) ==
    [c EXCEPT !.pc = "idle", !.op = op, !.ip = ip, !.calls = @ + 1, !.result = <<r>>]

\* A lookup that asks the service whatever the cache holds.
CheckCacheNever(g, t, ip) ==
    [g EXCEPT !.callers[t] = [@ EXCEPT !.pc = "network", !.op = "lookup_ip",
                                       !.ip = ip, !.calls = @ + 1,
                                       !.result = << >>]]

\* Lines 24-26: IP_CACHE.lock().unwrap().get(ip), and the return of the
\* clone of what is found.
CheckCache(g, t, ip) ==
    IF ip \in DOMAIN g.cache
    THEN [g EXCEPT !.callers[t] = CallReturned(@, "lookup_ip", ip, Found(g.cache[ip]))]
    ELSE [g EXCEPT !.callers[t] = [@ EXCEPT !.pc = "network", !.op = "lookup_ip",
                                            !.ip = ip, !.calls = @ + 1,
                                            !.result = << >>]]

\* Lines 27-35: Locator::get(ip, Service::IpApi).await answered Ok.
OnLocation(g, t, l) ==
    [g EXCEPT !.callers[t] = [@ EXCEPT !.pc = "insert", !.info = <<GeoInfoOf(l)>>],
              !.requests = Append(@, g.callers[t].ip)]

\* Lines 40-43: Locator::get answered Err.
OnLookupError(g, t, text) ==
    [g EXCEPT !.callers[t] = [@ EXCEPT !.pc = "idle", !.result = <<LookupFailed(text)>>],
              !.requests = Append(@, g.callers[t].ip)]

\* Lines 36-38: IP_CACHE.lock().unwrap().insert(..), then Ok(geo_info).
\* `stored` is the history of the cache: what was stored, and the clears.
InsertAndReturn(g, t) ==
    [g EXCEPT !.cache = MapInsert(@, g.callers[t].ip, g.callers[t].info[1]),
              !.stored = Append(@, g.callers[t].ip),
              !.callers[t] = [@ EXCEPT !.pc = "idle", !.info = << >>,
                                       !.result = <<Found(g.callers[t].info[1])>>]]

\* Lines 47-50.
clear_cache(g, t) ==
    [g EXCEPT !.cache = EmptyMap,
              !.stored = Append(@, "clear"),
              !.callers[t] = CallReturned(@, "clear_cache", "", Found(0))]

\* Lines 52-54.
cache_size(g, t) ==
    [g EXCEPT !.callers[t] = CallReturned(@, "cache_size", "", Found(MapLen(g.cache)))]

----------------------------------------------------------------------------
(* Concurrent callers of GeoLookup *)

\* How many callers there are, and how many calls they make together.
MaxCallers == 2
MaxGeoCalls == 3

Callers == 1..MaxCallers
Ips == {"1.1.1.1", "8.8.8.8"}
Locations ==
    {Location("A", "a", <<"1", ".", "5">>, <<"2">>),
     Location("B", "b", <<"x">>, << >>)}

NewCaller ==
    [pc |-> "idle", op |-> "", ip |-> "", calls |-> 0, info |-> << >>, result |-> << >>]

InitGeo ==
    /\ CoreIdle
    /\ settings = NotLoaded
    /\ webhook = NotSending
    /\ geo = [pc |-> "running", cache |-> EmptyMap,
              callers |-> [t \in Callers |-> NewCaller],
              requests |-> << >>, stored |-> << >>]
    /\ worker = NotWorking

GeoFrame ==
    /\ CoreUnchanged
    /\ UNCHANGED <<settings, webhook, worker>>

RECURSIVE CallsMade(_)
CallsMade(n) == IF n = 0 THEN 0 ELSE CallsMade(n - 1) + geo.callers[n].calls

CanCall(t) == geo.callers[t].pc = "idle" /\ CallsMade(MaxCallers) < MaxGeoCalls

LookupStarts ==
    /\ \E t \in Callers, ip \in Ips :
           /\ CanCall(t)
           /\ geo' = CheckCache(geo, t, ip)
    /\ GeoFrame

LocationArrives ==
    /\ \E t \in Callers, l \in Locations :
           /\ geo.callers[t].pc = "network"
           /\ geo' = OnLocation(geo, t, l)
    /\ GeoFrame

LookupErrors ==
    /\ \E t \in Callers :
           /\ geo.callers[t].pc = "network"
           /\ geo' = OnLookupError(geo, t, "error")
    /\ GeoFrame

LookupStores ==
    /\ \E t \in Callers :
           /\ geo.callers[t].pc = "insert"
           /\ geo' = InsertAndReturn(geo, t)
    /\ GeoFrame

CacheCleared ==
    /\ \E t \in Callers :
           /\ CanCall(t)
           /\ geo' = clear_cache(geo, t)
    /\ GeoFrame

SizeRead ==
    /\ \E t \in Callers :
           /\ CanCall(t)
           /\ geo' = cache_size(geo, t)
    /\ GeoFrame

NextGeo ==
    \/ LookupStarts
    \/ LocationArrives
    \/ LookupErrors
    \/ LookupStores
    \/ CacheCleared
    \/ SizeRead

SpecGeo == InitGeo /\ [][NextGeo]_vars

----------------------------------------------------------------------------
(* worker.rs: the queue worker *)

\* TaskMessage: the two fields main reads.
TaskMessage(task_id, file_path) == [task_id |-> task_id, file_path |-> file_path]

\* The bytes of a delivery: the JSON of a TaskMessage, or something else.
JsonOf(msg) == [json |-> TRUE, msg |-> <<msg>>]
NotJson == [json |-> FALSE, msg |-> << >>]

\* Line 143: serde_json::from_slice::<TaskMessage>(&delivery.data)
from_slice(data) == IF data.json THEN data.msg ELSE << >>

\* What consumer.next() yields: a delivery with its tag, or an error.
Delivered(tag, data) == [ok |-> TRUE, tag |-> tag, data |-> data]
ReceiveError(tag) == [ok |-> FALSE, tag |-> tag, data |-> NotJson]

\* anyhow::Result<()> of main
WorkerOk == [ok |-> TRUE, step |-> ""]
WorkerErr(step) == [ok |-> FALSE, step |-> step]

\* The `?` of lines 143-159: main returns the error.
Stopped(w, step) ==
    [w EXCEPT !.pc = "exited", !.exit = <<WorkerErr(step)>>,
              !.log = Append(@, <<w.delivery[1], "failed">>)]

\* One step of the task in hand is done.
Logged(w, step) == Append(w.log, <<w.delivery[1], step>>)

\* Lines 42-45: tokio::fs::read_to_string(file_path)
download_file(storage, file_path) ==
    IF file_path \in DOMAIN storage /\ IsUtf8(storage[file_path])
    THEN <<storage[file_path]>>
    ELSE << >>

\* Lines 50-55: the records of parse_dmarc_xml, the policy dropped.
process_report(file_content) ==
    IF parse_dmarc_xml(file_content).ok
    THEN <<parse_dmarc_xml(file_content).value[1].records>>
    ELSE << >>

\* Lines 139-144 and 161-163: an error of the consumer is printed and the
\* loop goes on; a delivery is decoded.
Receive(w, dl) ==
    IF ~dl.ok
    THEN [w EXCEPT !.queue = Tail(@), !.received = Append(@, dl),
                   !.log = Append(@, <<dl.tag, "receive error">>)]
    ELSE IF from_slice(dl.data) = << >>
    THEN [w EXCEPT !.queue = Tail(@), !.received = Append(@, dl),
                   !.delivery = <<dl.tag>>,
                   !.pc = "exited", !.exit = <<WorkerErr("decode")>>,
                   !.log = Append(@, <<dl.tag, "failed">>)]
    ELSE [w EXCEPT !.queue = Tail(@), !.received = Append(@, dl),
                   !.delivery = <<dl.tag>>,
                   !.task_msg = from_slice(dl.data),
                   !.pc = "download"]

\* Line 147.
Download(w, r) ==
    IF r = << >> THEN Stopped(w, "download")
    ELSE [w EXCEPT !.pc = "process", !.file_content = r,
                   !.log = Logged(w, "download")]

\* Lines 150 and 153: the records, and the start of the loop of line 65.
Process(w, r) ==
    IF r = << >> THEN Stopped(w, "parse")
    ELSE [w EXCEPT !.pc = "insert", !.records = r[1], !.index = 1,
                   !.log = Logged(w, "parse")]

\* The row of lines 66-87: report_id and the record the columns are made of.
Row(task_id, record) == [report_id |-> task_id, raw_data |-> record]

\* A loop that is left after its first turn.
InsertRecordOnce(w, executes) ==
    IF executes
    THEN [w EXCEPT !.db = Append(@, Row(w.task_msg[1].task_id, w.records[w.index])),
                   !.index = Len(w.records) + 1,
                   !.log = Logged(w, "insert")]
    ELSE Stopped(w, "insert")

\* Lines 65-90, one turn: the INSERT is executed, or fails.
InsertRecord(w, executes) ==
    IF executes
    THEN [w EXCEPT !.db = Append(@, Row(w.task_msg[1].task_id, w.records[w.index])),
                   !.index = @ + 1,
                   !.log = Logged(w, "insert")]
    ELSE Stopped(w, "insert")

\* Lines 97-102: the connection, then the publish.
publish_notification(w, o) ==
    IF o = "published"
    THEN [w EXCEPT !.pc = "ack", !.published = Append(@, w.task_msg[1].task_id),
                   !.log = Logged(w, "publish")]
    ELSE Stopped(w, "publish")

\* Line 159, and the next turn of the loop.
Ack(w, acks) ==
    IF acks
    THEN [w EXCEPT !.pc = "next", !.acked = Append(@, w.delivery[1]),
                   !.log = Logged(w, "ack"),
                   !.task_msg = << >>, !.file_content = << >>,
                   !.records = << >>, !.index = 0]
    ELSE Stopped(w, "ack")

\* Lines 139 and 167: the stream of the consumer has ended.
StreamEnded(w) == [w EXCEPT !.pc = "exited", !.exit = <<WorkerOk>>]

----------------------------------------------------------------------------
(* Runs of the worker *)

\* How many messages the queue delivers.
MaxDeliveries == 2

OneRecordReport ==
    <<STag("feedback")>> \o RecordOf(<<"1">>, << >>) \o <<ETag("feedback")>>
TwoRecordReport ==
    <<STag("feedback")>> \o RecordOf(<<"2">>, DkimElem)
    \o RecordOf(<<"3">>, << >>) \o <<ETag("feedback")>>
BrokenReport == <<STag("feedback"), ETag("record")>>

\* The files of the storage, by path.
Storage ==
    [p \in {"one", "two", "broken", "binary"} |->
        CASE p = "one" -> OneRecordReport
          [] p = "two" -> TwoRecordReport
          [] p = "broken" -> BrokenReport
          [] OTHER -> BinaryOf(1)]

Paths == DOMAIN Storage \cup {"missing"}

\* What the n-th delivery can be.
DeliveriesAt(n) ==
    {Delivered(n, JsonOf(TaskMessage(n, p))) : p \in Paths}
    \cup {Delivered(n, NotJson), ReceiveError(n)}

WorkerQueues ==
    UNION {{q \in [1..k -> UNION {DeliveriesAt(n) : n \in 1..k}] :
               \A n \in 1..k : q[n] \in DeliveriesAt(n)} : k \in 0..MaxDeliveries}

Outcomes == {"published", "no connection", "not published"}

InitWorker ==
    /\ CoreIdle
    /\ settings = NotLoaded
    /\ webhook = NotSending
    /\ geo = NoLookups
    /\ worker \in {[NotWorking EXCEPT !.pc = "next", !.queue = q] : q \in WorkerQueues}

WorkerFrame ==
    /\ CoreUnchanged
    /\ UNCHANGED <<settings, webhook, geo>>

WorkerReceives ==
    /\ worker.pc = "next"
    /\ worker.queue # << >>
    /\ worker' = Receive(worker, Head(worker.queue))
    /\ WorkerFrame

WorkerDownloads ==
    /\ worker.pc = "download"
    /\ worker' = Download(worker, download_file(Storage, worker.task_msg[1].file_path))
    /\ WorkerFrame

WorkerProcesses ==
    /\ worker.pc = "process"
    /\ worker' = Process(worker, process_report(worker.file_content[1]))
    /\ WorkerFrame

WorkerInserts ==
    /\ worker.pc = "insert"
    /\ worker.index <= Len(worker.records)
    /\ \E executes \in BOOLEAN : worker' = InsertRecord(worker, executes)
    /\ WorkerFrame

WorkerInsertsAll ==
    /\ worker.pc = "insert"
    /\ worker.index > Len(worker.records)
    /\ worker' = [worker EXCEPT !.pc = "publish"]
    /\ WorkerFrame

WorkerPublishes ==
    /\ worker.pc = "publish"
    /\ \E o \in Outcomes : worker' = publish_notification(worker, o)
    /\ WorkerFrame

WorkerAcks ==
    /\ worker.pc = "ack"
    /\ \E acks \in BOOLEAN : worker' = Ack(worker, acks)
    /\ WorkerFrame

WorkerStreamEnds ==
    /\ worker.pc = "next"
    /\ worker.queue = << >>
    /\ worker' = StreamEnded(worker)
    /\ WorkerFrame

NextWorker ==
    \/ WorkerReceives
    \/ WorkerDownloads
    \/ WorkerProcesses
    \/ WorkerInserts
    \/ WorkerInsertsAll
    \/ WorkerPublishes
    \/ WorkerAcks
    \/ WorkerStreamEnds

SpecWorker == InitWorker /\ [][NextWorker]_vars

----------------------------------------------------------------------------
(* Properties of a text, read off its atoms *)

Done == pc = "done"
Succeeded == Done /\ result[1].ok
Returned == result[1].value[1]

NoDoctype(xml) == \A i \in 1..Len(xml) : xml[i] \notin {DoctypeMarker, EntityMarker}

IsFirst(xml, i, a) == xml[i] = a /\ \A j \in 1..(i - 1) : xml[j] # a

\* The text from the first "<!DOCTYPE" through the first following "]>"
\* holds two or more "<!ENTITY".
TwoEntitiesInBlock(xml) ==
    \E s, e \in 1..Len(xml) :
        /\ IsFirst(xml, s, DoctypeMarker)
        /\ s < e /\ xml[e] = BlockEnd
        /\ \A j \in (s + 1)..(e - 1) : xml[j] # BlockEnd
        /\ \E a, b \in (s + 1)..(e - 1) :
               a < b /\ xml[a] = EntityMarker /\ xml[b] = EntityMarker

\* The elements open after the first `i` atoms, innermost last; <<"#">> once
\* an end tag did not close the innermost open element.
RECURSIVE OpenAfter(_, _)
OpenAfter(xml, i) ==
    IF i = 0 THEN << >>
    ELSE LET before == OpenAfter(xml, i - 1) IN
         IF before = <<"#">> THEN before
         ELSE IF xml[i] \in StartTags THEN Append(before, TagName(xml[i]))
         ELSE IF xml[i] \in EndTags
              THEN IF before # << >> /\ before[Len(before)] = TagName(xml[i])
                   THEN SubSeq(before, 1, Len(before) - 1)
                   ELSE <<"#">>
              ELSE before

\* Every end tag closes the innermost open element.
ProperlyNested(xml) == OpenAfter(xml, Len(xml)) # <<"#">>
WellFormed(xml) == OpenAfter(xml, Len(xml)) = << >>

\* The deepest nesting of an element of a properly nested text.
MaxNesting(xml) ==
    LET d(i) == Cardinality({j \in 1..i : xml[j] \in StartTags})
                  - Cardinality({j \in 1..i : xml[j] \in EndTags})
    IN IF xml = << >> THEN 0
       ELSE CHOOSE m \in {d(i) : i \in 1..Len(xml)} :
                \A i \in 1..Len(xml) : d(i) <= m

CountOf(xml, a) == Cardinality({i \in 1..Len(xml) : xml[i] = a})

----------------------------------------------------------------------------
(* C1 *)

\* C1: a text whose DOCTYPE block (first "<!DOCTYPE" through the first
\* following "]>") holds two or more "<!ENTITY" is rejected with the
\* recursive-entities error, nothing is returned, and the tokenizer was
\* never created nor asked for an event.
C1_RecursiveEntitiesRejected ==
    (TwoEntitiesInBlock(xml_content) /\ pc # "prepass") =>
        /\ pc = "done"
        /\ result = <<[ok |-> FALSE, value |-> << >>,
                       err |-> [kind |-> "Xml",
                                msg |-> "UnexpectedEof(Recursive entities detected)"]]>>
        /\ reader.live = FALSE
        /\ event = NoEvent
        /\ records = << >>

C1_Witness ==
    /\ xml_content = LaughsProlog \o MinimalDoc
    /\ Done
    /\ ~result[1].ok

----------------------------------------------------------------------------
(* C2 *)

\* The DOCTYPE declaration that starts at `s` ends at `e`: the first '>'
\* after `s` before which every '<' read inside the declaration was closed.
ClosesDecl(xml, s, e) ==
    LET open(i) == Cardinality({j \in (s + 1)..i : OpensAngle(xml[j])})
                     - Cardinality({j \in (s + 1)..i : ClosesAngle(xml[j])})
    IN /\ s < e /\ e <= Len(xml)
       /\ ClosesAngle(xml[e])
       /\ open(e - 1) = 0
       /\ \A i \in (s + 1)..(e - 1) : ClosesAngle(xml[i]) => open(i - 1) > 0

WithoutDecl(xml, s, e) == SubSeq(xml, 1, s - 1) \o From(xml, e + 1)

\* `s`..`e` is the DOCTYPE declaration of the text, it holds at most one
\* entity declaration, and what is left without it is a well-formed
\* document with no further declaration.
OneDoctype(xml, s, e) ==
    /\ IsFirst(xml, s, DoctypeMarker)
    /\ ClosesDecl(xml, s, e)
    /\ CountOf(SubSeq(xml, s, e), EntityMarker) <= 1
    /\ NoDoctype(WithoutDecl(xml, s, e))
    /\ WellFormed(WithoutDecl(xml, s, e))

\* C2: when the DOCTYPE declaration of a text holds at most one entity
\* declaration, the call returns what it returns for the same text with the
\* declaration deleted: no element after the declaration is lost.
C2_SameAsWithoutDoctype ==
    Done =>
        \A s, e \in 1..Len(xml_content) :
            OneDoctype(xml_content, s, e)
            => result[1] = parse_dmarc_xml(WithoutDecl(xml_content, s, e))

\* The same holds of the texts whose declaration precedes the first element
\* and in which no "]>" follows the declaration (the first "]>" after
\* "<!DOCTYPE", if any, is the end of the declaration).
C2_WhenBlockIsDeclaration ==
    Done =>
        \A s, e \in 1..Len(xml_content) :
            (/\ OneDoctype(xml_content, s, e)
             /\ \A j \in 1..(s - 1) : xml_content[j] \notin StartTags
             /\ \A j \in (s + 1)..Len(xml_content) :
                    xml_content[j] = BlockEnd => j = e)
            => result[1] = parse_dmarc_xml(WithoutDecl(xml_content, s, e))

C2_BlockIsDeclarationReached ==
    /\ Succeeded
    /\ \E s, e \in 1..Len(xml_content) :
          /\ OneDoctype(xml_content, s, e)
          /\ xml_content[e] = BlockEnd
          /\ CountOf(SubSeq(xml_content, s, e), EntityMarker) = 1
    /\ Len(Returned.records) = 1

----------------------------------------------------------------------------
(* C3 *)

\* `v` is the trimmed text between a start tag <n> and an end tag </n> of
\* `text`, atom for atom.
IsElementText(text, n, v) ==
    \E i, j \in 1..Len(text) :
        /\ i < j
        /\ text[i] = STag(n)
        /\ text[j] = ETag(n)
        /\ LET raw == SubSeq(text, i + 1, j - 1)
               inner == {k \in 1..Len(raw) : raw[k] # " "}
           IN IF inner = {} THEN v = << >>
              ELSE \E a, b \in inner :
                      /\ \A k \in inner : a <= k /\ k <= b
                      /\ v = SubSeq(raw, a, b)

\* Every text field of every returned record is empty (never assigned) or
\* the trimmed text of an element of that name in `text`.
FieldsAreTextOf(text) ==
    \A k \in 1..Len(Returned.records) :
        LET r == Returned.records[k] IN
        /\ r.source_ip = << >> \/ IsElementText(text, "source_ip", r.source_ip)
        /\ r.header_from = << >> \/ IsElementText(text, "header_from", r.header_from)
        /\ r.spf.domain = << >> \/ IsElementText(text, "domain", r.spf.domain)
        /\ r.spf.scope = << >> \/ IsElementText(text, "scope", r.spf.scope)
        /\ \A d \in 1..Len(r.dkim) :
              /\ r.dkim[d].domain = << >>
                    \/ IsElementText(text, "domain", r.dkim[d].domain)
              /\ r.dkim[d].selector = << >>
                    \/ IsElementText(text, "selector", r.dkim[d].selector)

\* C3 as stated: the call fails, or every text field of every returned
\* record is the trimmed raw text between the element's tags in the input.
C3_FieldsAreRawInputText == Succeeded => FieldsAreTextOf(xml_content)

\* C3, amended: the call fails, or every text field of every returned record
\* is the trimmed raw text between the element's tags in the text the
\* pre-pass hands to the tokenizer (the input without its DOCTYPE block);
\* an entity reference in it is kept as written, never replaced.
C3_FieldsAreRawCleanedText ==
    Succeeded => \A c \in 1..Len(CleanXml(xml_content)) :
                    FieldsAreTextOf(CleanXml(xml_content)[c])

C3_Witness ==
    /\ Succeeded
    /\ xml_content = XxeProlog \o BracketDoc
    /\ Len(Returned.records) = 1
    /\ Returned.records[1].source_ip = <<EntityRef>>

----------------------------------------------------------------------------
(* C4, C5 *)

DepthLimitExceeded ==
    [ok |-> FALSE, value |-> << >>,
     err |-> [kind |-> "Xml",
              msg |-> "UnexpectedEof(XML recursion depth limit exceeded)"]]

\* C4: a well-formed document in which some element is nested deeper than
\* 20 fails with the depth-limit error, wherever the deep nesting is.
C4_DeepNestingRejected ==
    (/\ Done
     /\ NoDoctype(xml_content)
     /\ WellFormed(xml_content)
     /\ MaxNesting(xml_content) > 20)
    => result[1] = DepthLimitExceeded

\* C5: a well-formed document whose nesting never exceeds 20 is never
\* rejected with the depth-limit error, however many records and field,
\* <dkim>, <spf> or <policy_published> elements it holds.
C5_ShallowNeverRejected ==
    (/\ Done
     /\ NoDoctype(xml_content)
     /\ WellFormed(xml_content)
     /\ MaxNesting(xml_content) <= 20)
    => result[1] # DepthLimitExceeded

----------------------------------------------------------------------------
(* C6 *)

\* The record the one-record document yields, field by field.
ExpectedRecord(ip, count, from) ==
    [source_ip |-> ip, count |-> count, header_from |-> from,
     envelope_from |-> << >>,
     policy_evaluated |-> [disposition |-> << >>, dkim |-> "None", spf |-> "None"],
     dkim |-> << >>,
     spf |-> [domain |-> << >>, scope |-> << >>, result |-> "None"],
     date_range |-> [begin |-> 0, end |-> 0]]

ExpectedPolicy ==
    [domain |-> << >>, adkim |-> "Relaxed", aspf |-> "Relaxed",
     policy |-> "None", pct |-> 100]

\* The texts of the one-record documents and the values they stand for.
TrimmedIp ==
    {<<IpText, IpText>>, <<<<" ", "1", " ">>, <<"1">>>>,
     <<<<EntityRef>>, <<EntityRef>>>>}
CountValue == {<<<<"1">>, 1>>, <<<<" ", "4", "2">>, 42>>}
TrimmedFrom == {<<DomainText, DomainText>>, <<<<"e", " ">>, <<"e">>>>}

\* C6: one <record> inside <feedback> with <source_ip>, <count> and
\* <header_from> parses to exactly one record with those three trimmed
\* values, no DKIM result, the default SPF result, date range 0/0, and the
\* default policy.
C6_OneRecordDocument ==
    Done =>
        /\ \A ip \in TrimmedIp, c \in CountValue, f \in TrimmedFrom :
              xml_content = OneRecordDoc(ip[1], c[1], f[1])
              => /\ result[1].ok
                 /\ Returned.records = <<ExpectedRecord(ip[2], c[2], f[2])>>
                 /\ Returned.policy = ExpectedPolicy
        /\ xml_content = IndentedDoc
              => /\ result[1].ok
                 /\ Returned.records = <<ExpectedRecord(IpText, 1, DomainText)>>
                 /\ Returned.policy = ExpectedPolicy

C6_Witness ==
    /\ Done
    /\ xml_content = MinimalDoc
    /\ Len(Returned.records) = 1
    /\ Returned.records[1].count = 1

----------------------------------------------------------------------------
(* C7 *)

\* The loop is about to process a </record> end tag while a record is open.
AtRecordEndWithOpenRecord ==
    /\ InLoop
    /\ Upcoming.type = "End" /\ Upcoming.name = "record"
    /\ current_record # << >>

\* C7: the output sequence changes only in the step that processes a
\* </record> end tag while a record is open; that step appends exactly the
\* open record at the end, every such step appends one, the records appended
\* earlier stay where and as they were, and a successful call returns the
\* sequence so built.
C7_AppendedOnlyAtRecordEnd ==
    /\ [][/\ records' # records => AtRecordEndWithOpenRecord
          /\ AtRecordEndWithOpenRecord
               => /\ records' = Append(records, current_record[1])
                  /\ current_record' = << >>
          /\ Len(records') >= Len(records)
          /\ \A i \in 1..Len(records) : records'[i] = records[i]]_vars
    /\ [](Succeeded => Returned.records = records)

\* Three different records came out in document order.
C7_Witness ==
    /\ Succeeded
    /\ xml_content = SeveralDoc
    /\ Len(Returned.records) = 3
    /\ Returned.records[1].source_ip = <<"1">>
    /\ Returned.records[2].source_ip = <<"2">>
    /\ Returned.records[3].source_ip = <<"3">>

----------------------------------------------------------------------------
(* C8 *)

\* The text is properly nested and ends with a <record> still open.
RecordOpenAtEnd(xml) ==
    /\ ProperlyNested(xml)
    /\ \E i \in 1..Len(OpenAfter(xml, Len(xml))) :
           OpenAfter(xml, Len(xml))[i] = "record"

\* C8: when the input ends while a record is still open, the call succeeds
\* and returns the records closed before the end, one per </record>, without
\* the open one.
C8_TruncatedInputSucceeds ==
    (/\ Done
     /\ NoDoctype(xml_content)
     /\ RecordOpenAtEnd(xml_content))
    => /\ result[1].ok
       /\ Len(Returned.records) = CountOf(xml_content, ETag("record"))

----------------------------------------------------------------------------
(* C9 *)

Verdicts == {"Pass", "Fail", "Neutral", "None"}

IsSpfResult(r) ==
    /\ DOMAIN r = {"domain", "scope", "result"}
    /\ r.result \in Verdicts

IsDkimResult(r) ==
    /\ DOMAIN r = {"domain", "selector", "result"}
    /\ r.result \in Verdicts

IsPolicy(p) ==
    /\ DOMAIN p = {"domain", "adkim", "aspf", "policy", "pct"}
    /\ p.adkim \in {"Relaxed", "Strict"}
    /\ p.aspf \in {"Relaxed", "Strict"}
    /\ p.policy \in {"None", "Quarantine", "Reject"}

ExpectedSpf == [domain |-> << >>, scope |-> << >>, result |-> "None"]

\* C9: a successful call returns a policy and records that each have one SPF
\* result and a sequence of DKIM results; without a <policy_published>
\* element the policy is the all-default one (empty domain, relaxed, relaxed,
\* none, 100); a record starts with the default SPF result and keeps it until
\* an <spf> start tag is processed for it, so a document without <spf> yields
\* default SPF results only.
C9_SpfDkimAndPolicyPresent ==
    /\ [](Succeeded =>
            /\ IsPolicy(Returned.policy)
            /\ \A i \in 1..Len(Returned.records) :
                   /\ IsSpfResult(Returned.records[i].spf)
                   /\ \A k \in 1..Len(Returned.records[i].dkim) :
                          IsDkimResult(Returned.records[i].dkim[k])
                   /\ CountOf(xml_content, STag("spf")) = 0
                        => Returned.records[i].spf = ExpectedSpf
            /\ CountOf(xml_content, STag("policy_published")) = 0
                 => Returned.policy = ExpectedPolicy)
    /\ [][/\ (current_record = << >> /\ current_record' # << >>)
               => current_record'[1].spf = ExpectedSpf
          /\ (/\ current_record # << >> /\ current_record' # << >>
              /\ current_record'[1].spf # current_record[1].spf)
               => /\ event'.type = "Start"
                  /\ \/ event'.name = "spf"
                     \/ /\ event'.name = "record"
                        /\ current_record'[1].spf = ExpectedSpf]_vars

\* A record with a DKIM result and no <spf>, in a document without
\* <policy_published>.
C9_Witness ==
    /\ Succeeded
    /\ CountOf(xml_content, STag("policy_published")) = 0
    /\ Len(Returned.records) = 2
    /\ Len(Returned.records[2].dkim) = 1
    /\ Returned.records[2].spf = ExpectedSpf
    /\ Returned.policy.pct = 100

----------------------------------------------------------------------------
(* C10 *)

\* C10: the pct of a returned policy lies in 0..100, and is 100 when the
\* document has no <pct> element.
C10_PctWithinHundred ==
    Succeeded =>
        /\ Returned.policy.pct \in 0..100
        /\ CountOf(xml_content, STag("pct")) = 0 => Returned.policy.pct = 100

----------------------------------------------------------------------------
(* C11 *)

\* Strict exactly when the first character is `s` or `S`.
ByFirstCharacter(text) ==
    IF text # << >> /\ text[1] \in {"s", "S"} THEN "Strict" ELSE "Relaxed"

\* The values read from EnumDoc(a.text, t.text) are those of the texts
\* `av` and `tv`, with verdict `v` and disposition `d` for `tv`.
EnumValuesAre(av, tv, v, d) ==
    /\ result[1].ok
    /\ Returned.policy.adkim = ByFirstCharacter(av)
    /\ Returned.policy.aspf = ByFirstCharacter(tv)
    /\ Returned.policy.policy = d
    /\ Len(Returned.records) = 1
    /\ Len(Returned.records[1].dkim) = 1
    /\ Returned.records[1].dkim[1].result = v
    /\ Returned.records[1].spf.result = v

\* C11 as stated, on the element text as written: a DKIM or SPF <result>
\* text that is no recognized word yields none, a <p> text that is no
\* recognized word yields none, <adkim>/<aspf> text yields strict exactly
\* when its first character is `s` or `S`, recognized words match whatever
\* their case, and the parse never fails.
C11_LeniencyOnTextAsWritten ==
    Done =>
        \A a \in EnumTexts, t \in EnumTexts :
            xml_content = EnumDoc(a.text, t.text)
            => EnumValuesAre(a.text, t.text,
                             IF t.text = t.trimmed THEN t.verdict ELSE "None",
                             IF t.text = t.trimmed THEN t.disposition ELSE "None")

\* C11 amended: the same, on the element text with the white space around
\* it removed.
C11_LeniencyOnTrimmedText ==
    Done =>
        \A a \in EnumTexts, t \in EnumTexts :
            xml_content = EnumDoc(a.text, t.text)
            => EnumValuesAre(a.trimmed, t.trimmed, t.verdict, t.disposition)

\* An unrecognized <result> and <p> text, and an <adkim> text that begins
\* with `S` without being a recognized word.
C11_Witness ==
    /\ Succeeded
    /\ xml_content = EnumDoc(<<"S", "x">>, W_pass \o <<"x">>)
    /\ Returned.policy.adkim = "Strict"
    /\ Returned.policy.policy = "None"
    /\ Returned.records[1].spf.result = "None"

----------------------------------------------------------------------------
(* C12 *)

\* C12: a <count> text that is no valid unsigned 32-bit integer (empty,
\* not numeric, negative, above 4294967295) sets count to 0 and the fields
\* and records after it are parsed as usual; a valid text sets count to its
\* value.
C12_CountDefaultsToZero ==
    Done =>
        \A c \in CountTexts :
            xml_content = CountDoc(c.text)
            => /\ result[1].ok
               /\ Len(Returned.records) = 2
               /\ Returned.records[1].count = c.value
               /\ Returned.records[1].source_ip = <<"1">>
               /\ Returned.records[1].header_from = <<"e">>
               /\ Returned.records[2].count = 5
               /\ Returned.records[2].source_ip = <<"2">>

\* A count one above the largest u32 became 0 and both records came out.
C12_Witness ==
    /\ Succeeded
    /\ xml_content = CountDoc(<<"4", "2", "9", "4", "9", "6", "7", "2", "9", "6">>)
    /\ Len(Returned.records) = 2
    /\ Returned.records[1].count = 0
    /\ Returned.records[1].header_from = <<"e">>

----------------------------------------------------------------------------
(* C13 *)

\* C13: whatever calls of parse_dmarc_xml and extract_zip were made before
\* a call or run in between its steps, the call returns what a call with
\* the same arguments returns on its own: the same output or the same
\* error.
C13_CallsAreIndependent ==
    /\ Done => result[1] = parse_dmarc_xml(xml_content)
    /\ extraction.pc = "done"
         => extraction.result[1] = extract_zip(file, config)

\* A third call, of the parser on a document nested 20 deep, has returned
\* with success, and so has a call of extract_zip.
C13_Witness ==
    /\ calls = 2
    /\ Succeeded
    /\ xml_content = NestDoc(<< >>, 19)
    /\ extraction.pc = "done"
    /\ extraction.result[1].ok

----------------------------------------------------------------------------
(* Properties of a file and of a finished call of extract_zip *)

ExtractDone == extraction.pc = "done"
ExtractResult == extraction.result[1]

\* The file is a zip archive under a name that ends in ".zip", in any case.
IsZipArchive ==
    /\ file.zip # << >>
    /\ LastDot(file.name) > 0
    /\ \E w \in {<<"z", "i", "p">>, <<"Z", "I", "P">>, <<"Z", "i", "p">>} :
           From(file.name, LastDot(file.name) + 1) = w

Entries == file.zip[1]

\* The entry's name is safe and within the length limit, and its declared
\* sizes are within the ratio and the size limit.
EntryComplies(e) ==
    /\ ~\E i \in 1..(Len(e.name) - 1) : e.name[i] = "." /\ e.name[i + 1] = "."
    /\ e.name = << >> \/ e.name[1] \notin {"/", "\\"}
    /\ Len(e.name) <= config.max_filename_length
    /\ e.compressed_size = 0
         \/ e.size <= config.max_compression_ratio * e.compressed_size
    /\ e.size <= config.max_decompressed_size

\* The entry can be opened and its bytes are text.
EntryDecodes(e) == e.opens /\ \A i \in 1..Len(e.data) : e.data[i] # InvalidByte

----------------------------------------------------------------------------
(* C14 *)

\* C14: on a zip archive whose raw size and entry count are within the
\* limits, whose entries all comply in name, ratio and declared size and
\* decode as text, extract_zip succeeds and returns the entries' payloads,
\* one per entry, in the order of the entries.
C14_CompliantArchiveExtracted ==
    (/\ ExtractDone
     /\ IsZipArchive
     /\ Len(file.raw) <= config.max_file_size
     /\ Len(Entries) <= config.max_files_in_zip
     /\ \A i \in 1..Len(Entries) :
            EntryComplies(Entries[i]) /\ EntryDecodes(Entries[i]))
    => /\ ExtractResult.ok
       /\ ExtractResult.value = [i \in 1..Len(Entries) |-> Entries[i].data]

\* Two entries with different payloads came out in archive order, the
\* second of them blank.
C14_Witness ==
    /\ ExtractDone
    /\ IsZipArchive
    /\ ExtractResult.ok
    /\ Len(Entries) = 2
    /\ ExtractResult.value = <<<<"a", "a", "a", "a">>, <<" ">>>>

----------------------------------------------------------------------------
(* C15 *)

\* The name contains ".." or begins with "/" or "\".
UnsafeName(name) ==
    \/ \E i \in 1..(Len(name) - 1) : name[i] = "." /\ name[i + 1] = "."
    \/ name # << >> /\ name[1] \in {"/", "\\"}

\* C15: on a zip archive with an entry whose stored name contains ".." or
\* begins with "/" or "\", wherever the entry is and whatever it holds,
\* extract_zip fails and returns no payload.
C15_UnsafeNameRejected ==
    (/\ ExtractDone
     /\ IsZipArchive
     /\ \E i \in 1..Len(Entries) : UnsafeName(Entries[i].name))
    => /\ ~ExtractResult.ok
       /\ ExtractResult.value = << >>

\* An archive whose second entry has the unsafe name was rejected for it,
\* after the first entry was read.
C15_Witness ==
    /\ ExtractDone
    /\ IsZipArchive
    /\ Len(Entries) = 2
    /\ ~UnsafeName(Entries[1].name)
    /\ UnsafeName(Entries[2].name)
    /\ extraction.reads = <<0>>
    /\ ~ExtractResult.ok
    /\ ExtractResult.err.msg = "Path traversal attempt detected"

----------------------------------------------------------------------------
(* C16 *)

\* The declared uncompressed size divided by the compressed size, which is
\* above 0, exceeds max_compression_ratio.
OverRatio(e) ==
    /\ e.compressed_size > 0
    /\ e.size > config.max_compression_ratio * e.compressed_size

\* read_to_string was called on entry `i` (counted from 1).
WasRead(i) == \E k \in 1..Len(extraction.reads) : extraction.reads[k] = i - 1

RatioError == "Suspicious compression ratio"

\* C16 as stated: an archive with an entry over the ratio fails with the
\* suspicious-compression-ratio error, and that entry is never decompressed.
C16_RatioErrorWhatever ==
    (/\ ExtractDone
     /\ IsZipArchive
     /\ \E i \in 1..Len(Entries) : OverRatio(Entries[i]))
    => /\ ~ExtractResult.ok
       /\ ExtractResult.err.msg = RatioError
       /\ \A i \in 1..Len(Entries) : OverRatio(Entries[i]) => ~WasRead(i)

\* Nothing rejects the archive before the ratio of entry `i` is looked at.
ReachesRatioOf(i) ==
    /\ Len(file.raw) <= config.max_file_size
    /\ Len(Entries) <= config.max_files_in_zip
    /\ \A j \in 1..(i - 1) : EntryComplies(Entries[j]) /\ EntryDecodes(Entries[j])
    /\ Entries[i].opens
    /\ ~UnsafeName(Entries[i].name)
    /\ Len(Entries[i].name) <= config.max_filename_length

\* C16 amended: such an archive fails, no payload is returned and the entry
\* is never decompressed; the error is the suspicious-compression-ratio
\* error when no earlier check rejects the archive.
C16_RatioRejected ==
    (/\ ExtractDone
     /\ IsZipArchive
     /\ \E i \in 1..Len(Entries) : OverRatio(Entries[i]))
    => /\ ~ExtractResult.ok
       /\ ExtractResult.value = << >>
       /\ \A i \in 1..Len(Entries) :
              OverRatio(Entries[i])
              => /\ ~WasRead(i)
                 /\ ReachesRatioOf(i) => ExtractResult.err.msg = RatioError

\* The second entry is over the ratio and within the size limit; the first
\* was read, the second was not.
C16_Witness ==
    /\ ExtractDone
    /\ IsZipArchive
    /\ Len(Entries) = 2
    /\ OverRatio(Entries[2])
    /\ Entries[2].size <= config.max_decompressed_size
    /\ ReachesRatioOf(2)
    /\ extraction.reads = <<0>>
    /\ ExtractResult.err.msg = RatioError

----------------------------------------------------------------------------
(* C17 *)

\* The declared uncompressed size exceeds max_decompressed_size.
OverSize(e) == e.size > config.max_decompressed_size

TooLargeOrRatio ==
    ExtractResult.err.kind = "FileTooLarge" \/ ExtractResult.err.msg = RatioError

\* C17 as stated: an archive with an entry whose declared size is over the
\* limit fails with the too-large or the compression-ratio error, before
\* that entry is decompressed and with no payload returned.
C17_TooLargeErrorWhatever ==
    (/\ ExtractDone
     /\ IsZipArchive
     /\ \E i \in 1..Len(Entries) : OverSize(Entries[i]))
    => /\ ~ExtractResult.ok
       /\ ExtractResult.value = << >>
       /\ TooLargeOrRatio
       /\ \A i \in 1..Len(Entries) : OverSize(Entries[i]) => ~WasRead(i)

\* C17 amended: such an archive fails before that entry is decompressed
\* and with no payload returned, also when the entry's compressed size is
\* 0; the error is the too-large or the compression-ratio error when no
\* earlier check rejects the archive, and the too-large error when the
\* compressed size is 0.
C17_OverSizeRejected ==
    (/\ ExtractDone
     /\ IsZipArchive
     /\ \E i \in 1..Len(Entries) : OverSize(Entries[i]))
    => /\ ~ExtractResult.ok
       /\ ExtractResult.value = << >>
       /\ \A i \in 1..Len(Entries) :
              OverSize(Entries[i])
              => /\ ~WasRead(i)
                 /\ ReachesRatioOf(i) => TooLargeOrRatio
                 /\ (ReachesRatioOf(i) /\ Entries[i].compressed_size = 0)
                      => ExtractResult.err.kind = "FileTooLarge"

\* The second entry declares compressed size 0 and a size over the limit:
\* rejected as too large, unread, after the first entry was read.
C17_Witness ==
    /\ ExtractDone
    /\ IsZipArchive
    /\ Len(Entries) = 2
    /\ OverSize(Entries[2])
    /\ Entries[2].compressed_size = 0
    /\ extraction.reads = <<0>>
    /\ ~ExtractResult.ok
    /\ ExtractResult.err.msg = "Total decompressed size too large"

----------------------------------------------------------------------------
(* C18 *)

\* The bytes of the payloads together.
RECURSIVE TotalSize(_)
TotalSize(payloads) ==
    IF payloads = << >> THEN 0
    ELSE Len(Head(payloads)) + TotalSize(Tail(payloads))

----------------------------------------------------------------------------
(* C19 *)

OverFileSize == FileSize(file) > config.max_file_size

HandleDone == handling.pc = "done"
HandleResult == handling.result[1]

\* C19: a file whose raw size exceeds max_file_size is rejected with
\* FileTooLarge by extract_zip and by process_file, whatever its name and
\* contents; extract_zip goes from the size check straight to its return,
\* classifying no extension and reading and returning nothing.
C19_SizeCheckedFirst ==
    OverFileSize
    => /\ extraction.pc \in {"size", "done"}
       /\ extraction.reads = << >>
       /\ extraction.extracted = << >>
       /\ ExtractDone
            => /\ ~ExtractResult.ok
               /\ ExtractResult.value = << >>
               /\ ExtractResult.err.kind = "FileTooLarge"
       /\ HandleDone
            => /\ ~HandleResult.ok
               /\ HandleResult.value = << >>
               /\ HandleResult.err.kind = "FileTooLarge"

\* An oversized file under an unsupported name, rejected by both as too
\* large.
C19_Witness ==
    /\ OverFileSize
    /\ SplitLast(file.name) \notin {W_zip, W_gz, W_xml}
    /\ HandlerExtension \notin {W_zip, W_gz, W_xml}
    /\ ExtractDone
    /\ ExtractResult.err.kind = "FileTooLarge"
    /\ HandleDone
    /\ HandleResult.err.kind = "FileTooLarge"

----------------------------------------------------------------------------
(* C20 *)

\* The name has an extension, the text after its last ".", which is zip,
\* gz or xml in any case of its letters.
SupportedName ==
    /\ LastDot(file.name) > 0
    /\ ToLower(From(file.name, LastDot(file.name) + 1)) \in {W_zip, W_gz, W_xml}

ExtractUnsupported ==
    ~ExtractResult.ok /\ ExtractResult.err.kind = "UnsupportedFile"

HandleUnsupported ==
    ~HandleResult.ok /\ HandleResult.err.kind = "UnsupportedFile"

\* C20: a file within the size limit is rejected with UnsupportedFile
\* exactly when its name has no extension or one other than zip, gz and
\* xml (in any case), by extract_zip and by process_file alike.
C20_ClassifiedByExtension ==
    (ExtractDone /\ HandleDone /\ ~OverFileSize)
    => /\ ExtractUnsupported <=> ~SupportedName
       /\ HandleUnsupported <=> ~SupportedName
       /\ ExtractUnsupported <=> HandleUnsupported

----------------------------------------------------------------------------
(* C21 *)

\* The errors the code builds for the rejection causes: file too large, too
\* many entries, unsafe entry name, filename too long, suspicious
\* compression ratio, unsupported file, recursive entities, depth limit.
CauseErrors ==
    {Err("FileTooLarge", "File too large"),
     Err("Anyhow", "Too many files in archive"),
     Err("Format", "Path traversal attempt detected"),
     Err("Format", "Filename too long"),
     Err("Format", RatioError),
     Err("UnsupportedFile", "Unsupported file type"),
     RecursiveEntitiesError,
     DepthLimitError}

\* C21: when extract_zip rejects a file for one of the causes, the kind of
\* its error is the kind of no other cause's error.
C21_KindTellsCause ==
    (/\ ExtractDone
     /\ ~ExtractResult.ok
     /\ ExtractResult.err \in CauseErrors)
    => \A e \in CauseErrors :
           e.kind = ExtractResult.err.kind => e = ExtractResult.err

----------------------------------------------------------------------------
(* C22 *)

\* The data of the entries, in their order.
DataOf(entries) == [i \in 1..Len(entries) |-> entries[i].data]

\* What the file holds for the path its name selects, when it is within
\* the limits and decodes as text; << >> when it is not.
DecodedPayloads ==
    CASE SplitLast(file.name) = W_zip ->
           IF /\ file.zip # << >>
              /\ Len(Entries) <= config.max_files_in_zip
              /\ \A i \in 1..Len(Entries) :
                     EntryComplies(Entries[i]) /\ EntryDecodes(Entries[i])
           THEN <<DataOf(Entries)>> ELSE << >>
      [] SplitLast(file.name) = W_gz ->
           IF /\ file.gz # << >>
              /\ IsUtf8(file.gz[1])
              /\ Len(file.gz[1]) <= config.max_decompressed_size
           THEN <<file.gz>> ELSE << >>
      [] SplitLast(file.name) = W_xml ->
           IF IsUtf8(file.raw) THEN <<(<<file.raw>>)>> ELSE << >>
      [] OTHER -> << >>

\* C22: on a file within the limits whose content decodes as text,
\* extract_zip succeeds and returns the content as it is, also when an
\* entry, the gz stream or the xml file is empty or white space only.
C22_BlankPayloadReturned ==
    (ExtractDone /\ ~OverFileSize /\ DecodedPayloads # << >>)
    => /\ ExtractResult.ok
       /\ ExtractResult.value = DecodedPayloads[1]

\* A gz stream of white space only, returned as the one payload.
C22_Witness ==
    /\ ExtractDone
    /\ SplitLast(file.name) = W_gz
    /\ ExtractResult.ok
    /\ Len(ExtractResult.value) = 1
    /\ Len(ExtractResult.value[1]) > 0
    /\ IsBlank(ExtractResult.value[1])

----------------------------------------------------------------------------
(* C23 *)

NameTooLong(e) == Len(e.name) > config.max_filename_length

\* The message of the first check, in the claimed order, the entry fails:
\* name safety, name length, compression ratio, declared size; "" when it
\* passes all four.
FirstFailure(e) ==
    IF UnsafeName(e.name) THEN "Path traversal attempt detected"
    ELSE IF NameTooLong(e) THEN "Filename too long"
    ELSE IF OverRatio(e) THEN RatioError
    ELSE IF OverSize(e) THEN "Total decompressed size too large"
    ELSE ""

\* The entry the loop of extract_zip is at.
CurrentEntry == Entries[extraction.index + 1]

\* Every entry before the i-th opens, passes the four checks and decodes.
EarlierPass(i) ==
    \A j \in 1..(i - 1) :
        /\ Entries[j].opens
        /\ EntryComplies(Entries[j])
        /\ EntryDecodes(Entries[j])

\* C23: on a zip archive, the entry count is checked before any entry is
\* looked at; an entry's name safety, name length, compression ratio and
\* declared size are checked in that order, the first failure deciding
\* the error, and the entry is decompressed only after all four pass; a
\* rejection returns the error alone, whatever was decompressed before.
C23_ChecksInOrder ==
    (SplitLast(file.name) = W_zip /\ file.zip # << >> /\ ~OverFileSize)
    => /\ Len(Entries) > config.max_files_in_zip
            => /\ extraction.pc \in {"size", "classify", "archive", "done"}
               /\ extraction.reads = << >>
               /\ ExtractDone
                    => ExtractResult.err.msg = "Too many files in archive"
       /\ extraction.pc = "length" => ~UnsafeName(CurrentEntry.name)
       /\ extraction.pc = "ratio"
            => ~UnsafeName(CurrentEntry.name) /\ ~NameTooLong(CurrentEntry)
       /\ extraction.pc = "declared"
            => /\ ~UnsafeName(CurrentEntry.name)
               /\ ~NameTooLong(CurrentEntry)
               /\ ~OverRatio(CurrentEntry)
       /\ extraction.pc = "read" => FirstFailure(CurrentEntry) = ""
       /\ \A i \in 1..Len(Entries) :
              WasRead(i) => FirstFailure(Entries[i]) = "" /\ EarlierPass(i)
       /\ (ExtractDone /\ Len(Entries) <= config.max_files_in_zip)
            => \A i \in 1..Len(Entries) :
                   (/\ EarlierPass(i)
                    /\ Entries[i].opens
                    /\ FirstFailure(Entries[i]) # "")
                   => /\ ~ExtractResult.ok
                      /\ ExtractResult.value = << >>
                      /\ ExtractResult.err.msg = FirstFailure(Entries[i])
                      /\ Len(extraction.extracted) = i - 1
                      /\ ~WasRead(i)

\* The second entry has a name that is too long and a declared size over
\* the limit: rejected for the name, after the first entry was
\* decompressed, and the first entry's payload is not returned.
C23_Witness ==
    /\ ExtractDone
    /\ SplitLast(file.name) = W_zip
    /\ file.zip # << >>
    /\ Len(Entries) = 2
    /\ NameTooLong(Entries[2])
    /\ OverSize(Entries[2])
    /\ extraction.reads = <<0>>
    /\ Len(extraction.extracted) = 1
    /\ ~ExtractResult.ok
    /\ ExtractResult.value = << >>
    /\ ExtractResult.err.msg = "Filename too long"

----------------------------------------------------------------------------
(* C24 *)

IsDkimPiece(p) == p.kind = "dkim"

\* One DKIM result per <dkim> element of the list, in the order of the
\* elements.
DkimResultsOf(list) ==
    [i \in 1..Len(SelectSeq(list, IsDkimPiece)) |->
        [domain |-> SelectSeq(list, IsDkimPiece)[i].value.domain,
         selector |-> SelectSeq(list, IsDkimPiece)[i].value.selector,
         result |-> SelectSeq(list, IsDkimPiece)[i].value.result]]

\* C24: the one record of a report has one DKIM result per <dkim> element
\* of the record, in document order, with the domain, selector and verdict
\* of that element; <dkim> elements outside the record add nothing.
C24_OneResultPerDkim ==
    Succeeded
    => \A b \in Outside, l \in AuthLists, a \in Outside :
           xml_content = AuthDoc(b, l, a)
           => /\ Len(Returned.records) = 1
              /\ Returned.records[1].dkim = DkimResultsOf(l)

----------------------------------------------------------------------------
(* C25 *)

IsSpfPiece(p) == p.kind = "spf"

\* The SPF result of the last <spf> element of the list, from that element
\* alone; the default one when the list has no <spf> element.
SpfResultOf(list) ==
    IF SelectSeq(list, IsSpfPiece) = << >> THEN ExpectedSpf
    ELSE [domain |-> SelectSeq(list, IsSpfPiece)[Len(SelectSeq(list, IsSpfPiece))].value.domain,
          scope |-> SelectSeq(list, IsSpfPiece)[Len(SelectSeq(list, IsSpfPiece))].value.scope,
          result |-> SelectSeq(list, IsSpfPiece)[Len(SelectSeq(list, IsSpfPiece))].value.result]

\* C25: the SPF result of the one record of a report is the one of the
\* last <spf> element of the record, with the domain, scope and verdict of
\* that element alone.
C25_LastSpfWins ==
    Succeeded
    => \A b \in Outside, l \in AuthLists, a \in Outside :
           xml_content = AuthDoc(b, l, a)
           => /\ Len(Returned.records) = 1
              /\ Returned.records[1].spf = SpfResultOf(l)

----------------------------------------------------------------------------
(* C26 *)

RecordFields == {"source_ip", "count", "header_from", "dkim", "spf"}

\* The main loop is about to read the start tag of a field, <dkim> or
\* <spf> element while no record is open.
FieldStartsOutside ==
    /\ InLoop
    /\ current_record = << >>
    /\ Upcoming.type = "Start"
    /\ Upcoming.name \in RecordFields

\* C26: the start tag of a <source_ip>, <count>, <header_from>, <dkim> or
\* <spf> element read while no record is open changes neither the records
\* nor the policy nor the open record, and takes nothing but the tag from
\* the input: the element counts as one level of nesting, as any element
\* does, and its content and end tag are left for the main loop.  A
\* report gives the same result with such elements around its record as
\* without them.
C26_NoEffectOutsideRecord ==
    /\ [][FieldStartsOutside
           => /\ records' = records
              /\ policy' = policy
              /\ current_record' = << >>
              /\ reader' = ReadEvent(reader).rd
              /\ IF depth + 1 > max_depth
                 THEN pc' = "done" /\ result' = <<Error(DepthLimitError)>>
                 ELSE pc' = "loop" /\ depth' = depth + 1 /\ result' = result]_vars
    /\ [](Done
            => \A b \in Outside, l \in AuthLists, a \in Outside :
                   xml_content = AuthDoc(b, l, a)
                   => result[1] = parse_dmarc_xml(AuthDoc(<< >>, l, << >>)))

\* The start tag of such an element was read after a record was closed.
C26_Witness ==
    /\ InLoop
    /\ current_record = << >>
    /\ event.type = "Start"
    /\ event.name \in RecordFields
    /\ Len(records) = 1
    /\ depth = 2

----------------------------------------------------------------------------
(* C27 *)

\* The reader after the start tag the main loop is about to read.
AfterTag == ReadEvent(reader).rd

\* The start tag of `names` is about to be processed: within the depth
\* limit and, for an element of a record, with a record open.
Processes(names, in_record) ==
    /\ AtStart(names)
    /\ depth + 1 <= max_depth
    /\ in_record => current_record # << >>

\* Reading on from `rd`, the tokenizer reports an error before it reports
\* the end tag of `name` or the end of the input.
RECURSIVE ErrFirst(_, _)
ErrFirstAt(r, name) ==
    CASE r.ev.type = "Err" -> TRUE
      [] r.ev.type = "Eof" -> FALSE
      [] r.ev.type = "End" /\ r.ev.name = name -> FALSE
      [] OTHER -> ErrFirst(r.rd, name)

ErrFirst(rd, name) == ErrFirstAt(ReadEvent(rd), name)

\* The call fails with this step, with a parse error and nothing else.
Fails ==
    /\ pc' = "done"
    /\ ~result'[1].ok
    /\ result'[1].value = << >>
    /\ result'[1].err.kind = "Xml"

\* The call returns the tokenizer's error `e` with this step: nothing else
\* is returned, and nothing is read after the error.
ReturnsError(e, rd) ==
    /\ pc' = "done"
    /\ result' = <<Error(e)>>
    /\ e.kind = "Xml"
    /\ reader' = rd

\* C27: a tokenizer error, in the main pass, in the sub-scan of a
\* <policy_published>, <dkim> or <spf> element or in the reading of a
\* field's text, ends the call at once with that error; a failed call
\* returns no record.
C27_TokenizerErrorReturned ==
    /\ [][InLoop
           => /\ Upcoming.type = "Err"
                   => ReturnsError(Upcoming.err, AfterTag)
              /\ (/\ Processes({"policy_published"}, FALSE)
                  /\ ~parse_policy_published(AfterTag).ok)
                   => ReturnsError(parse_policy_published(AfterTag).err,
                                   parse_policy_published(AfterTag).rd)
              /\ (Processes({"dkim"}, TRUE) /\ ~parse_dkim(AfterTag).ok)
                   => ReturnsError(parse_dkim(AfterTag).err,
                                   parse_dkim(AfterTag).rd)
              /\ (Processes({"spf"}, TRUE) /\ ~parse_spf(AfterTag).ok)
                   => ReturnsError(parse_spf(AfterTag).err,
                                   parse_spf(AfterTag).rd)
              /\ (/\ \/ Processes({"policy_published"}, FALSE)
                     \/ Processes(RecordFields, TRUE)
                  /\ ErrFirst(AfterTag, Upcoming.name))
                   => Fails
              /\ (/\ Processes({"source_ip", "count", "header_from"}, TRUE)
                  /\ ~ReadText(AfterTag, Upcoming.name).ok)
                   => ReturnsError(ReadText(AfterTag, Upcoming.name).err,
                                   ReadText(AfterTag, Upcoming.name).rd)]_vars
    /\ []((Done /\ ~result[1].ok) => result[1].value = << >>)

\* A tokenizer error inside the sub-scan of a <dkim> element ended the
\* call, with a record finalized before and one open: none is returned.
C27_Witness ==
    /\ Done
    /\ ~result[1].ok
    /\ result[1].err.kind = "Xml"
    /\ result[1].value = << >>
    /\ event.type = "Start"
    /\ event.name = "dkim"
    /\ current_record # << >>
    /\ Len(records) >= 1

----------------------------------------------------------------------------
(* C28 *)

\* C28: the text the tokenizer is created over holds no "<!ENTITY".
C28_NoEntityReachesTokenizer ==
    (reader.live /\ CleanXml(xml_content) # << >>)
    => MatchCount(IF CleanXml(xml_content) # << >>
                  THEN CleanXml(xml_content)[1] ELSE << >>, EntityMarker) = 0

----------------------------------------------------------------------------
(* C29 *)

\* The payloads main took from the archive, and what the parser returns
\* for the k-th of them.
Payloads == main.extracted_files
Parsed(k) == parse_dmarc_xml(Payloads[k])

AllParse(n) == \A k \in 1..n : Parsed(k).ok

\* The records of the first n payloads, one payload after the other, and
\* the policy of the n-th.
RECURSIVE RecordsUpTo(_)
RecordsUpTo(n) ==
    IF n = 0 THEN << >> ELSE RecordsUpTo(n - 1) \o Parsed(n).value[1].records

PolicyUpTo(n) == IF n = 0 THEN << >> ELSE <<Parsed(n).value[1].policy>>

MergedUpTo(n) ==
    /\ AllParse(n)
    /\ main.results = RecordsUpTo(n)
    /\ main.policy_info = PolicyUpTo(n)

IsFirstFailing(k) ==
    /\ k \in 1..Len(Payloads)
    /\ AllParse(k - 1)
    /\ ~Parsed(k).ok

\* C29: in the loop of main the results are the records of the payloads
\* parsed so far, in payload order, and the policy is that of the last
\* one parsed; whatever is rendered or sent is rendered or sent when every
\* payload has parsed, and holds the records of them all; when a payload
\* fails to parse, main never goes past it, and it exits with the error of
\* that payload with nothing rendered and nothing sent.
C29_MergeOrAbort ==
    /\ main.pc = "loop" => MergedUpTo(main.index - 1)
    /\ main.pc \in {"render", "webhook"} => MergedUpTo(Len(Payloads))
    /\ main.rendered # << >> \/ main.sent # << >>
         => /\ MergedUpTo(Len(Payloads))
            /\ \A i \in 1..Len(main.rendered) :
                   main.rendered[i].of \in {main.results, main.policy_info, << >>}
            /\ \A i \in 1..Len(main.sent) : main.sent[i].body = main.results
    /\ \A k \in 1..Len(Payloads) :
           IsFirstFailing(k)
           => /\ main.pc \in {"loop", "exit"}
              /\ main.index <= k
              /\ main.pc = "exit"
                   => /\ main.exit = <<ExitErr("Failed to parse DMARC XML", Parsed(k).err)>>
                      /\ main.rendered = << >>
                      /\ main.sent = << >>

\* Two payloads were parsed and merged, the third failed: main has exited
\* with the error and printed nothing.
C29_Witness ==
    /\ main.pc = "exit"
    /\ IsFirstFailing(3)
    /\ Parsed(1).value[1].policy # Parsed(2).value[1].policy
    /\ Len(main.results) = 3
    /\ main.policy_info = <<Parsed(2).value[1].policy>>
    /\ ~main.exit[1].ok
    /\ main.rendered = << >>
    /\ main.sent = << >>

----------------------------------------------------------------------------
(* C30 *)

\* What process_file reads on the path the name selects is blank: an
\* entry of the archive, or the archive has no entry; the gz stream; the
\* xml file.
BlankContent ==
    CASE HandlerExtension = W_zip ->
           /\ file.zip # << >>
           /\ \/ Entries = << >>
              \/ \E i \in 1..Len(Entries) : IsBlank(Entries[i].data)
      [] HandlerExtension = W_gz -> file.gz # << >> /\ IsBlank(file.gz[1])
      [] HandlerExtension = W_xml -> IsBlank(file.raw)
      [] OTHER -> FALSE

\* C30: a successful process_file returns one payload or more, none of
\* them empty or white space only; on blank content and on an archive
\* without entries it fails.
C30_NoBlankPayload ==
    HandleDone
    => /\ HandleResult.ok
            => /\ HandleResult.value # << >>
               /\ \A i \in 1..Len(HandleResult.value) :
                      ~IsBlank(HandleResult.value[i])
       /\ BlankContent => ~HandleResult.ok /\ HandleResult.value = << >>

\* A gz stream of white space only, within the size limit: refused as
\* empty.
C30_Witness ==
    /\ HandleDone
    /\ HandlerExtension = W_gz
    /\ file.gz # << >>
    /\ BlankContent
    /\ Len(file.gz[1]) > 0
    /\ ~HandleResult.ok
    /\ HandleResult.err.kind = "Parse"

----------------------------------------------------------------------------
(* C36 *)

\* The main loop is about to read the tag of a <record>.
RecordStartsNext == InLoop /\ Upcoming.type = "Start" /\ Upcoming.name = "record"
RecordEndsNext == InLoop /\ Upcoming.type = "End" /\ Upcoming.name = "record"

\* C36: a <record> start tag read while a record is open puts a fresh
\* all-default record in its place and emits nothing, so what the open
\* record had collected is lost; a </record> read while a record is open
\* emits that record and closes it, and a </record> read while none is
\* open emits nothing.  The report with a <record> inside a <record>
\* returns one record for the pair, the inner one, without the <source_ip>
\* read before the inner start tag and without the <count> read after the
\* inner end tag.
C36_NestedRecordReplaces ==
    /\ [][RecordStartsNext /\ current_record # << >> /\ depth + 1 <= max_depth
            => /\ current_record' = <<NewRecord>>
               /\ records' = records]_vars
    /\ [][RecordEndsNext
            => /\ current_record' = << >>
               /\ records' = IF current_record = << >> THEN records
                             ELSE Append(records, current_record[1])]_vars
    /\ [](Done /\ xml_content = NestedRecordDoc
            => /\ result[1].ok
               /\ Len(Returned.records) = 2
               /\ Returned.records[1] = [NewRecord EXCEPT !.source_ip = <<"2">>, !.count = 1]
               /\ Returned.records[2] = [NewRecord EXCEPT !.source_ip = <<"3">>, !.count = 1])

\* The outer </record> of the nested pair was read: the one record emitted
\* so far is the inner one.
C36_Witness ==
    /\ xml_content = NestedRecordDoc
    /\ InLoop
    /\ event.type = "End"
    /\ event.name = "record"
    /\ current_record = << >>
    /\ Len(records) = 1
    /\ records[1].source_ip = <<"2">>
    /\ RecordStartsNext

----------------------------------------------------------------------------
(* C37 *)

\* The three fields no arm of the match assigns are as <record> set them.
Unassigned(r) ==
    /\ r.envelope_from = << >>
    /\ r.date_range = [begin |-> 0, end |-> 0]
    /\ r.policy_evaluated = DefaultPolicyEvaluated

HasStart(xml, name) == \E i \in 1..Len(xml) : xml[i] = STag(name)

\* C37: the open record, every record emitted so far and every record
\* parse_dmarc_xml returns has no envelope_from, the date range 0/0 and
\* the default evaluated policy, whatever the document holds.
C37_NeverAssigned ==
    /\ \A i \in 1..Len(current_record) : Unassigned(current_record[i])
    /\ \A i \in 1..Len(records) : Unassigned(records[i])
    /\ Succeeded => \A i \in 1..Len(Returned.records) : Unassigned(Returned.records[i])

\* A report with an <envelope_from> and a <policy_evaluated> in its record
\* was parsed, and likewise one with a <date_range>.
C37_Witness ==
    /\ Succeeded
    /\ Len(Returned.records) = 1
    /\ \/ HasStart(xml_content, "envelope_from") /\ HasStart(xml_content, "disposition")
       \/ HasStart(xml_content, "envelope_from") /\ HasStart(xml_content, "begin")

----------------------------------------------------------------------------
(* C39 *)

AuthPieceOfReport == Elem("auth_results", DkimElem \o SpfElem)

\* The DKIM results and the SPF result the <auth_results> blocks of a
\* record spell, in document order.
RECURSIVE AuthDkimOf(_)
AuthDkimOf(list) ==
    IF list = << >> THEN << >>
    ELSE (IF Head(list) = AuthPieceOfReport
          THEN <<[domain |-> <<"d">>, selector |-> << >>, result |-> "Pass"]>>
          ELSE << >>) \o AuthDkimOf(Tail(list))

AuthSpfOf(list) ==
    IF \E i \in 1..Len(list) : list[i] = AuthPieceOfReport
    THEN [domain |-> <<"d">>, scope |-> << >>, result |-> "Fail"]
    ELSE DefaultSpf

\* C39: the DKIM sequence and the SPF result of a returned record are
\* those of its <auth_results> elements; the <dkim> and <spf> verdicts of
\* a <policy_evaluated> block add no DKIM entry and leave the SPF result.
C39_VerdictsOfEvaluatedIgnored ==
    Succeeded
    => \A l \in EvalLists :
           xml_content = EvalDoc(l)
           => /\ Len(Returned.records) = 1
              /\ Returned.records[1].dkim = AuthDkimOf(l)
              /\ Returned.records[1].spf = AuthSpfOf(l)

----------------------------------------------------------------------------
(* C38 *)

\* C38: the policy returned for a report of several <policy_published>
\* elements is the policy its last element spells, with the defaults for
\* the fields that element omits, also when the end of the input cuts the
\* last element off.
C38_LastPolicyAlone ==
    Succeeded
    => \A l \in PolicyLists :
           xml_content = PoliciesDoc(l) /\ l # << >>
           => Returned.policy = l[Len(l)].value

----------------------------------------------------------------------------
(* C35 *)

RefusedAs(msg) == ExtractDone /\ ~ExtractResult.ok /\ ExtractResult.err.msg = msg

\* C35: extract_zip refuses for a size or a count only what is strictly
\* over its limit.  The file is refused as too large exactly when its raw
\* size is over max_file_size; an archive that opens, exactly when it has
\* more entries than max_files_in_zip; an entry is refused for its name
\* only when the name is longer than max_filename_length, for its ratio
\* only when its declared size is over max_compression_ratio times its
\* compressed size, for its size only when it declares more than
\* max_decompressed_size, and a gz stream only when it decompresses to
\* more than max_decompressed_size; whatever is returned is within all of
\* them.  The archive with every value at its limit is extracted, and the
\* same archive with one value one larger is refused for that value.
C35_LimitsInclusive ==
    /\ ExtractDone
         => /\ RefusedAs("File too large") <=> FileSize(file) > config.max_file_size
            /\ RefusedAs("Too many files in archive")
                 => Len(Entries) > config.max_files_in_zip
            /\ RefusedAs("Filename too long")
                 => Len(CurrentEntry.name) > config.max_filename_length
            /\ RefusedAs("Suspicious compression ratio")
                 => CurrentEntry.size > config.max_compression_ratio * CurrentEntry.compressed_size
            /\ RefusedAs("Total decompressed size too large")
                 => CurrentEntry.size > config.max_decompressed_size
            /\ RefusedAs("Decompressed size too large")
                 => Len(file.gz[1]) > config.max_decompressed_size
            /\ ExtractResult.ok /\ file.zip # << >> /\ SplitLast(file.name) = W_zip
                 => /\ Len(Entries) <= config.max_files_in_zip
                    /\ \A i \in 1..Len(Entries) :
                          /\ Len(Entries[i].name) <= config.max_filename_length
                          /\ Entries[i].size <= config.max_decompressed_size
                          /\ Entries[i].compressed_size > 0
                               => Entries[i].size <= config.max_compression_ratio
                                                      * Entries[i].compressed_size
            /\ ExtractResult.ok /\ SplitLast(file.name) = W_gz
                 => Len(file.gz[1]) <= config.max_decompressed_size
    /\ ExtractDone /\ config = Limits(3, 4, 2, 2, 3)
         => /\ file = AtLimits => ExtractResult.ok /\ Len(ExtractResult.value) = 2
            /\ file = LimitArchive(4, 2, 3, 2, 4) => RefusedAs("File too large")
            /\ file = LimitArchive(3, 3, 3, 2, 4) => RefusedAs("Too many files in archive")
            /\ file = LimitArchive(3, 2, 4, 2, 4) => RefusedAs("Filename too long")
            /\ file = LimitArchive(3, 2, 3, 1, 3) => RefusedAs("Suspicious compression ratio")
            /\ file = LimitArchive(3, 2, 3, 3, 5)
                 => RefusedAs("Total decompressed size too large")
            /\ file = GzFile(<<"r", ".", "g", "z">>, 3, TextOf(4)) => ExtractResult.ok
            /\ file = GzFile(<<"r", ".", "g", "z">>, 3, TextOf(5))
                 => RefusedAs("Decompressed size too large")

\* The archive whose size, entry count, name length, ratio and declared
\* size all equal their limits was extracted.
C35_Witness ==
    /\ ExtractDone
    /\ file = AtLimits
    /\ FileSize(file) = config.max_file_size
    /\ Len(Entries) = config.max_files_in_zip
    /\ Len(Entries[1].name) = config.max_filename_length
    /\ Entries[1].size = config.max_compression_ratio * Entries[1].compressed_size
    /\ Entries[1].size = config.max_decompressed_size
    /\ ExtractResult.ok

----------------------------------------------------------------------------
(* C34 *)

\* The number the text of a variable spells, << >> when the variable is
\* not set or its text spells none; and that number or the default.
ValueOf(texts, v) ==
    IF v = << >> THEN << >> ELSE (CHOOSE x \in texts : x.text = v[1]).value

Expected(texts, v, default) == UnwrapOr(ValueOf(texts, v), default)

ConfigDone == settings.pc = "done"
ConfigResult == settings.result[1]

\* Config::new returned what the environment asks for, the webhook
\* timeout being read from the variable `timeout_var`: an error when the
\* maximal file size asked for is over 500,000,000, and otherwise the
\* Config of the values asked for, each default in its place.
ReturnsAsAsked(env, timeout_var) ==
    IF Expected(SizeTexts, env.DMARC_MAX_FILE_SIZE, 10 * 1024 * 1024) > 500000000
    THEN /\ ~ConfigResult.ok
         /\ ConfigResult.value = << >>
    ELSE /\ ConfigResult.ok
         /\ ConfigResult.value[1] =
              [webhook_url |-> ValueOf(UrlTexts, env.DMARC_WEBHOOK_URL),
               webhook_timeout |-> Expected(TimeoutTexts, timeout_var, 30),
               max_file_size |->
                   Expected(SizeTexts, env.DMARC_MAX_FILE_SIZE, 10 * 1024 * 1024),
               max_decompressed_size |->
                   Expected(CountTextsOfEnv, env.DMARC_MAX_DECOMPRESSED_SIZE,
                            100 * 1024 * 1024),
               max_files_in_zip |->
                   Expected(CountTextsOfEnv, env.DMARC_MAX_FILES_IN_ZIP, 1000),
               max_compression_ratio |->
                   Expected(RatioTexts, env.DMARC_MAX_COMPRESSION_RATIO,
                            [whole |-> 1000, frac |-> << >>]),
               max_filename_length |->
                   Expected(CountTextsOfEnv, env.DMARC_MAX_FILENAME_LENGTH, 256)]
         /\ ConfigResult.value[1].max_file_size <= 500000000

\* C34 as stated: every value, the webhook timeout included, comes from
\* its own variable, DMARC_WEBHOOK_TIMEOUT_SECS for the timeout, when that
\* variable is set and parses, and is the default otherwise.
C34_EachFromItsVariable ==
    ConfigDone => ReturnsAsAsked(settings.env, settings.env.DMARC_WEBHOOK_TIMEOUT_SECS)

\* C34: every limit comes from its own variable when that variable is set
\* and parses and is the default otherwise; the webhook URL is the trimmed
\* text of its variable, and none when that is unset or blank; the webhook
\* timeout is read from DMARC_WEBHOOK_TIMEOUT_SECS when that variable is
\* set, and from DMARC_WEBHOOK_TIMEOUT when it is not, and is 30 when the
\* variable read does not parse or neither is set; Config::new fails when
\* the maximal file size is over 500,000,000, so no Config has more.
C34_TimeoutFallsBack ==
    ConfigDone
    => ReturnsAsAsked(settings.env,
                      IF settings.env.DMARC_WEBHOOK_TIMEOUT_SECS # << >>
                      THEN settings.env.DMARC_WEBHOOK_TIMEOUT_SECS
                      ELSE settings.env.DMARC_WEBHOOK_TIMEOUT)

\* A maximal file size of exactly 500,000,000 was accepted, with the
\* timeout of DMARC_WEBHOOK_TIMEOUT and the defaults of four unset limits.
C34_Witness ==
    /\ ConfigDone
    /\ ConfigResult.ok
    /\ ConfigResult.value[1].max_file_size = 500000000
    /\ settings.env.DMARC_WEBHOOK_TIMEOUT_SECS = << >>
    /\ ConfigResult.value[1].webhook_timeout = 45
    /\ settings.env.DMARC_MAX_FILES_IN_ZIP = << >>
    /\ ConfigResult.value[1].max_files_in_zip = 1000
    /\ ConfigResult.value[1].max_decompressed_size = 100 * 1024 * 1024
    /\ ConfigResult.value[1].max_filename_length = 256
    /\ ConfigResult.value[1].max_compression_ratio = [whole |-> 1000, frac |-> << >>]
    /\ ConfigResult.value[1].webhook_url = << >>

----------------------------------------------------------------------------
(* C31 *)

SendDone == webhook.pc = "done"
SendResult == webhook.result[1]

\* The POST was answered with a success status.
Succeeds(o) == o.kind = "response" /\ o.status >= 200 /\ o.status < 300

\* The cause the error reports for a failed attempt.
ReportedFor(o) ==
    IF o.kind = "timeout" THEN <<"timeout">>
    ELSE IF o.kind = "response" THEN <<"HTTP", o.status, o.body>>
    ELSE <<o.body>>

\* C31: send never makes more than max_retries + 1 attempts, and none
\* after a successful one; before its n-th retry it has slept n times,
\* 2^(n-1) seconds the n-th time, so the attempts come one after another.
\* A successful attempt ends the call with Ok.  The call ends with the
\* error "Webhook failed after max_retries + 1 attempts" when exactly
\* max_retries + 1 attempts were made and all failed, and the cause it
\* reports is that of the last of them, "timeout" when it timed out.
C31_RetriesThenFails ==
    /\ Len(webhook.attempts) <= webhook.max_retries + 1
    /\ \A i \in 1..(Len(webhook.attempts) - 1) : ~Succeeds(webhook.attempts[i])
    /\ Len(webhook.slept) <= Len(webhook.attempts)
    /\ Len(webhook.slept) >= Len(webhook.attempts) - 1
    /\ \A i \in 1..Len(webhook.slept) : webhook.slept[i] = 2 ^ (i - 1)
    /\ webhook.pc = "post" => Len(webhook.slept) = Len(webhook.attempts)
    /\ (webhook.attempts # << >> /\ Succeeds(webhook.attempts[Len(webhook.attempts)]))
         => SendDone /\ SendResult.ok
    /\ SendDone /\ SendResult.ok
         => Succeeds(webhook.attempts[Len(webhook.attempts)])
    /\ SendDone /\ ~SendResult.ok
         => /\ Len(webhook.attempts) = webhook.max_retries + 1
            /\ \A i \in 1..Len(webhook.attempts) : ~Succeeds(webhook.attempts[i])
            /\ SendResult.msg = "Webhook failed after {} attempts: {:?}"
            /\ SendResult.attempts = webhook.max_retries + 1
            /\ SendResult.last_error
                 = <<ReportedFor(webhook.attempts[Len(webhook.attempts)])>>
    /\ ~SendDone
         => \/ webhook.attempts = << >>
            \/ /\ ~Succeeds(webhook.attempts[Len(webhook.attempts)])
               /\ Len(webhook.attempts) <= webhook.max_retries

\* Three attempts of a handler with max_retries 2 failed, the first with
\* a status 500 and the last with a timeout: the call has returned the
\* error, which reports the timeout.
C31_Witness ==
    /\ SendDone
    /\ ~SendResult.ok
    /\ webhook.max_retries = 2
    /\ Len(webhook.attempts) = 3
    /\ webhook.attempts[1].status = 500
    /\ webhook.attempts[3].kind = "timeout"
    /\ webhook.slept = <<1, 2>>
    /\ SendResult.attempts = 3
    /\ SendResult.last_error = <<<<"timeout">>>>


----------------------------------------------------------------------------
(* C32: the geolocation cache under concurrent callers *)

\* The distinct IPs stored since the last clear, read off the history.
RECURSIVE SinceLastClear(_)
SinceLastClear(h) ==
    IF h = << >> \/ h[Len(h)] = "clear"
    THEN {}
    ELSE SinceLastClear(SubSeq(h, 1, Len(h) - 1)) \cup {h[Len(h)]}

\* Caller t makes the call op at this step.
Invokes(t, op) ==
    /\ geo.callers[t].pc = "idle"
    /\ geo'.callers[t].calls = geo.callers[t].calls + 1
    /\ geo'.callers[t].op = op

\* Caller t leaves the place `from` and returns at this step.
ReturnsFrom(t, from) ==
    /\ geo.callers[t].pc = from
    /\ geo'.callers[t].pc = "idle"

\* A lookup of a cached IP returns the cached entry at once and asks nothing.
HitAnswersFromCache ==
    \A t \in Callers :
        Invokes(t, "lookup_ip") /\ geo'.callers[t].ip \in DOMAIN geo.cache
            => /\ geo'.callers[t].pc = "idle"
               /\ geo'.callers[t].result = <<Found(geo.cache[geo'.callers[t].ip])>>
               /\ geo'.requests = geo.requests
               /\ geo'.cache = geo.cache

\* A lookup of an IP that is not cached goes to the service.
MissAsksService ==
    \A t \in Callers :
        Invokes(t, "lookup_ip") /\ geo'.callers[t].ip \notin DOMAIN geo.cache
            => /\ geo'.callers[t].pc = "network"
               /\ geo'.cache = geo.cache

\* The lookup that succeeded stores one entry, under its IP, and returns it.
SuccessStoresOne ==
    \A t \in Callers :
        ReturnsFrom(t, "insert")
            => /\ DOMAIN geo'.cache = DOMAIN geo.cache \cup {geo.callers[t].ip}
               /\ geo'.cache[geo.callers[t].ip] = geo.callers[t].info[1]
               /\ \A x \in DOMAIN geo.cache \ {geo.callers[t].ip} :
                      geo'.cache[x] = geo.cache[x]
               /\ geo'.callers[t].result = <<Found(geo.callers[t].info[1])>>
               /\ geo'.stored = Append(geo.stored, geo.callers[t].ip)

\* The lookup that failed returns the error and leaves the cache alone.
FailureKeepsCache ==
    \A t \in Callers :
        ReturnsFrom(t, "network")
            => /\ geo'.cache = geo.cache
               /\ geo'.stored = geo.stored
               /\ ~geo'.callers[t].result[1].ok

\* clear_cache leaves the cache empty.
ClearEmpties ==
    \A t \in Callers :
        Invokes(t, "clear_cache")
            => /\ DOMAIN geo'.cache = {}
               /\ geo'.stored = Append(geo.stored, "clear")

\* cache_size answers the number of IPs stored since the last clear.
SizeCounts ==
    \A t \in Callers :
        Invokes(t, "cache_size")
            => /\ geo'.callers[t].result
                      = <<Found(Cardinality(SinceLastClear(geo.stored)))>>
               /\ geo'.cache = geo.cache
               /\ geo'.stored = geo.stored

\* C32: whatever the interleaving of lookup_ip, clear_cache and cache_size
\* calls, a cached IP is answered from the cache without asking the service,
\* a successful lookup stores exactly one entry for its IP, a failed lookup
\* leaves the cache unchanged, clear_cache leaves it empty, and the cache
\* holds exactly the distinct IPs stored by successful lookups since the last
\* clear, which is the number cache_size answers.
C32_CacheUnderInterleaving ==
    /\ [][HitAnswersFromCache]_vars
    /\ [][MissAsksService]_vars
    /\ [][SuccessStoresOne]_vars
    /\ [][FailureKeepsCache]_vars
    /\ [][ClearEmpties]_vars
    /\ [][SizeCounts]_vars
    /\ [](geo.pc = "running" => DOMAIN geo.cache = SinceLastClear(geo.stored))

\* Two callers have looked up the same IP with success and the service was
\* asked once: the second was answered from the one entry of the cache.
C32_Witness ==
    /\ geo.pc = "running"
    /\ \E t \in Callers : \E u \in Callers \ {t} :
           /\ geo.callers[t].pc = "idle" /\ geo.callers[u].pc = "idle"
           /\ geo.callers[t].op = "lookup_ip" /\ geo.callers[u].op = "lookup_ip"
           /\ geo.callers[t].calls = 1 /\ geo.callers[u].calls = 1
           /\ geo.callers[t].ip = geo.callers[u].ip
           /\ geo.callers[t].result[1].ok /\ geo.callers[u].result[1].ok
    /\ Len(geo.requests) = 1
    /\ MapLen(geo.cache) = 1


----------------------------------------------------------------------------
(* C33: the steps of a task of the worker, and its acknowledgement *)

\* The steps done for the delivery `tag`, in the order they were done.
RECURSIVE StepsIn(_, _)
StepsIn(log, tag) ==
    IF log = << >> THEN << >>
    ELSE IF Head(log)[1] = tag /\ Head(log)[2] \notin {"failed", "receive error"}
    THEN <<Head(log)[2]>> \o StepsIn(Tail(log), tag)
    ELSE StepsIn(Tail(log), tag)

\* The records of the report the delivery `dl` names: what the parser
\* returns for the file at its path.
ReportRecords(dl) ==
    IF /\ dl.ok
       /\ dl.data.json
       /\ dl.data.msg[1].file_path \in DOMAIN Storage
       /\ parse_dmarc_xml(Storage[dl.data.msg[1].file_path]).ok
    THEN parse_dmarc_xml(Storage[dl.data.msg[1].file_path]).value[1].records
    ELSE << >>

\* The steps of a task carried to its end.
FullRun(dl) ==
    <<"download", "parse">> \o Repeat(<<"insert">>, Len(ReportRecords(dl)))
    \o <<"publish", "ack">>

IsPrefix(s, t) == Len(s) <= Len(t) /\ s = SubSeq(t, 1, Len(s))

\* The rows the database holds for the task `task_id`.
RowsOf(task_id) == SelectSeq(worker.db, LAMBDA row : row.report_id = task_id)

Acknowledged(tag) == \E k \in DOMAIN worker.acked : worker.acked[k] = tag

\* main has returned an error while the delivery `tag` was in hand.
FailedAt(tag) ==
    /\ worker.pc = "exited"
    /\ ~worker.exit[1].ok
    /\ worker.delivery = <<tag>>

\* C33: the steps done for each delivered task are a beginning of
\* download, parse, one insert per record, publish, acknowledge, in this
\* order; an acknowledged message has a row in the database for every
\* record of its report and its notification published; and the task at
\* which the worker failed is not acknowledged.
C33_StepsInOrderAckLast ==
    \A tag \in DOMAIN worker.received :
        /\ IsPrefix(StepsIn(worker.log, tag), FullRun(worker.received[tag]))
        /\ Acknowledged(tag)
              => /\ StepsIn(worker.log, tag) = FullRun(worker.received[tag])
                 /\ RowsOf(tag)
                       = [k \in DOMAIN ReportRecords(worker.received[tag]) |->
                             Row(tag, ReportRecords(worker.received[tag])[k])]
                 /\ \E k \in DOMAIN worker.published : worker.published[k] = tag
        /\ FailedAt(tag) => ~Acknowledged(tag)

\* The first task, of one or two records, is acknowledged; the second has
\* failed after some of its records were inserted.
C33_Witness ==
    /\ worker.acked = <<1>>
    /\ FailedAt(2)
    /\ Len(RowsOf(1)) \in {1, 2}
    /\ Len(RowsOf(2)) >= 1

----------------------------------------------------------------------------
(* C40: the worker after a task that failed *)

\* C40: the worker stops only when the stream of deliveries has ended: a
\* task that cannot be decoded, downloaded, parsed, inserted or published
\* does not make main return, and no delivery is left unreceived.
C40_KeepsConsuming ==
    worker.pc = "exited" => worker.exit[1].ok /\ worker.queue = << >>

====
